---------------------------- MODULE Spec2Model ----------------------------
(***************************************************************************)
(* A model of the sofa_live scraper: the three acquisition strategies      *)
(* (API probe, browser DOM scrape, network capture), the normalisation of  *)
(* API events into match records, and the CAPTCHA gate.                    *)
(*                                                                         *)
(* JSON values are encoded uniformly: a scalar is a string, with two       *)
(* reserved tokens for "the key is absent" and "the value is null/None";   *)
(* a nested object is a record with a tag.  An event id is a natural       *)
(* number, 0 standing for every falsy id (absent, null, 0, "").            *)
(***************************************************************************)
EXTENDS Integers, Sequences, FiniteSets, TLC

VARIABLES
    \* ---- acquisition pipeline (one run of one strategy) ----
    strategy,      \* which strategy function was called
    limit,         \* its `limit` argument
    pc,            \* position inside the running function
    endpoint_idx,  \* api: index of the endpoint the for loop is at
    events,        \* api: events of the current endpoint still to process
    seen_ids,      \* api: the set `seen_ids`
    matches,       \* the list `matches` of the running function
    result,        \* the returned list (<<>> until the function returns)
    raised,        \* TRUE when the function ended by raising to its caller
    io,            \* api: log of the external calls made, in order
    first_seen,    \* observation: per truthy event id, the event that arrived
                   \* first with it, in order of arrival
    prior_ids,     \* observation: the ids seen before the current endpoint
    cross_skip,    \* observation: an id of an earlier endpoint was skipped
    parsed,        \* observation: some endpoint's body was parsed
    browser_open,  \* browser strategies: the launched browser is not closed
    pending,       \* browser: an exception is in flight through `finally`
    \* ---- extract_matches_from_api_response on one response ----
    norm_data,     \* the argument `response_data`
    norm_pc,       \* "ready" before the call, "done" after it
    norm_result,   \* the returned list
    norm_raised,   \* TRUE when the call raised
    \* ---- is_captcha_present on one page snapshot ----
    page_selectors,  \* the selectors page.query_selector finds an element for
    page_title,      \* page.title(), a sequence of characters
    page_content,    \* page.content(), a sequence of characters
    det_pc,          \* "ready" before the call, "done" after it
    det_result,      \* the returned boolean
    \* ---- the CAPTCHA gate: handle_captcha, wait_for_captcha_solution ----
    entry,           \* which of the two functions was called
    max_attempts,    \* handle_captcha: its argument
    hc_pc,           \* handle_captcha: position
    attempts,        \* handle_captcha: the local `attempts`
    hc_result,       \* handle_captcha: "none", "True", "False" or "raised"
    wait_calls,      \* observation: calls of wait_for_captcha_solution made
                     \* by handle_captcha
    w_pc,            \* wait_for_captcha_solution: position of the innermost
                     \* call (the recursion is a tail call)
    captcha_timeout, \* the argument of the innermost call
    start_time,      \* its `start_time` (-1 before it is taken)
    solved,          \* its result["solved"]
    w_result,        \* the value returned by the outermost call
    depth,           \* observation: nesting level of the innermost call
    timeout0,        \* observation: the argument of the outermost call
    first_start,     \* observation: start_time of the outermost call
    caller_timeout,  \* observation: the argument of the enclosing call
    charged,         \* observation: time the enclosing calls spent between
                     \* their start_time and their recursive call
    loop_entered,    \* observation: the innermost call entered its loop body
    last_pass,       \* observation: charged + elapsed when the latest pass of
                     \* a polling loop began (-1 before the first)
    now,             \* time.time(), in seconds
    stdin_lines,     \* lines typed by the operator and not yet read
    presses,         \* observation: lines typed so far
    reader,          \* the input thread of the innermost call: "none",
                     \* "blocked" in input(), or "done"
    stale_readers,   \* input threads of finished calls still blocked in input()
    stale_fed,       \* observation: lines read by such threads
    page_captcha,    \* what is_captcha_present(page) returns at this moment
    \* ---- main (main.py 67-124) ----
    method,          \* args.method
    cli_limit,       \* args.limit
    headless,        \* args.headless
    save_only,       \* args.save_only
    main_pc,         \* position inside main
    main_matches,    \* main's local `matches`
    scrape_error,    \* the except clause of main ran
    saved_file,      \* what save_results returned: "none" or "file"
    write_error,     \* writing the output file raised
    console,         \* what main reported at its end
    printed,         \* the records print_results listed
    exit_code,       \* the exit status of the process (-1 while it runs)
    \* ---- extract_matches_from_page on one page ----
    ext_fn,          \* the module whose extract_matches_from_page is called
    ext_dom,         \* the page: its elements in document order
    ext_pc,          \* "ready" before the call, "done" after it
    ext_result,      \* the returned list
    ext_raised,      \* TRUE when the call raised
    \* ---- the request pacing of fetch_live_and_upcoming_matches ----
    pace_pc,         \* "loop" inside the for loop, "done" after the return
    pace_idx,        \* index of the endpoint the for loop is at
    pace_log,        \* the sleeps and requests made, in order; a sleep with
                     \* its duration in milliseconds
    \* ---- safe_click_random (page_interactions.py 95-137) ----
    avoid_links,     \* the argument `avoid_links`
    click_page,      \* what document.elementFromPoint finds at each point
    click_pc,        \* "loop" in the for loop, "done", "raised"
    click_tries,     \* iterations of the for loop begun
    click_log,       \* the points page.mouse.click was called with, in order
    \* ---- human_scroll (page_interactions.py 16-61) ----
    iterations_given,  \* the argument `iterations` is not None
    iterations,        \* its value when it is given
    screenshot_prefix, \* the argument `screenshot_prefix` is given
    scroll_pc,         \* "loop" in the for loop, "done", "raised"
    scroll_log         \* the scrolls made, in order, each with the sleep
                       \* that follows it

pipeVars == <<strategy, limit, pc, endpoint_idx, events, seen_ids, matches,
              result, raised, io, first_seen, prior_ids, cross_skip, parsed,
              browser_open, pending>>

normVars == <<norm_data, norm_pc, norm_result, norm_raised>>

detVars == <<page_selectors, page_title, page_content, det_pc, det_result>>

hcVars == <<hc_pc, attempts, hc_result, wait_calls>>

frameVars == <<captcha_timeout, start_time, solved, depth, timeout0,
               first_start, caller_timeout, charged, loop_entered, last_pass>>

threadVars == <<reader, stale_readers>>

stdinVars == <<stdin_lines, presses, stale_fed>>

capVars == <<entry, max_attempts, hcVars, w_pc, w_result, frameVars, now,
             threadVars, stdinVars, page_captcha>>

mainVars == <<method, cli_limit, headless, save_only, main_pc, main_matches,
              scrape_error, saved_file, write_error, console, printed,
              exit_code>>

\* what no step of a strategy changes: its arguments, and the state of the
\* functions that are not running
extVars == <<ext_fn, ext_dom, ext_pc, ext_result, ext_raised>>

paceVars == <<pace_pc, pace_idx, pace_log>>

clickVars == <<avoid_links, click_page, click_pc, click_tries, click_log>>

scrollVars == <<iterations_given, iterations, screenshot_prefix, scroll_pc,
                scroll_log>>

uiVars == <<clickVars, scrollVars>>

args == <<strategy, limit, normVars, detVars, capVars, mainVars, extVars,
         paceVars, uiVars>>

apiVars == <<endpoint_idx, events, seen_ids, first_seen, prior_ids,
             cross_skip, parsed>>

browserVars == <<browser_open, pending>>

vars == <<pipeVars, normVars, detVars, capVars, mainVars, extVars, paceVars,
         uiVars>>

---------------------------------------------------------------------------
(* Bounds of the model *)

MaxLimit == 2
MaxEvents == 2

---------------------------------------------------------------------------
(* Generic helpers *)

Range(s) == {s[i] : i \in 1..Len(s)}

SeqsUpTo(S, n) == UNION {[1..k -> S] : k \in 0..n}

RECURSIVE Flatten(_)
Flatten(ss) == IF ss = <<>> THEN <<>> ELSE Head(ss) \o Flatten(Tail(ss))

---------------------------------------------------------------------------
(* JSON encoding *)

KeyAbsent == "<absent>"
None == "<None>"

AbsentObj == [tag |-> "absent", name |-> KeyAbsent]
NullObj == [tag |-> "null", name |-> KeyAbsent]
Obj(n) == [tag |-> "obj", name |-> n]

TsAbsent == [tag |-> "absent", val |-> 0]
TsNull == [tag |-> "null", val |-> 0]
TsNum(n) == [tag |-> "num", val |-> n]
TsStr(n) == [tag |-> "str", val |-> n]

Event(id, home, away, tour, ts, st) ==
    [id |-> id, homeTeam |-> home, awayTeam |-> away, tournament |-> tour,
     startTimestamp |-> ts, status |-> st]

---------------------------------------------------------------------------
(* Normalisation of one API event (api_scraper.py 94-112) *)

\* d.get(key, {}).get("name", default): None.get raises AttributeError
GetRaises(obj) == obj.tag = "null"

GetOrDefault(obj, default) ==
    IF obj.tag = "absent" THEN default
    ELSE IF obj.name = KeyAbsent THEN default
    ELSE obj.name

\* datetime.fromtimestamp(ts).strftime("%Y-%m-%d %H:%M:%S"), for the
\* timestamps the model draws, in UTC (all within the range of years
\* fromtimestamp accepts)
FormatTimestamp(n) ==
    CASE n = 0 -> "1970-01-01 00:00:00"
      [] n = 1700000000 -> "2023-11-14 22:13:20"
      [] OTHER -> "formatted"

StartTime(ts) ==
    IF ts.tag = "num" THEN FormatTimestamp(ts.val) ELSE "Unknown"

EventUrl(ev_id) == "https://www.sofascore.com/event/" \o ToString(ev_id)

NormalizeRaises(ev) ==
    \/ GetRaises(ev.homeTeam)
    \/ GetRaises(ev.awayTeam)
    \/ GetRaises(ev.tournament)
    \/ GetRaises(ev.status)

BuildMatch(ev) ==
    [url |-> EventUrl(ev.id),
     home_team |-> GetOrDefault(ev.homeTeam, "Unknown"),
     away_team |-> GetOrDefault(ev.awayTeam, "Unknown"),
     tournament |-> GetOrDefault(ev.tournament, "Unknown"),
     start_time |-> StartTime(ev.startTimestamp),
     status |-> GetOrDefault(ev.status, "Scheduled")]

---------------------------------------------------------------------------
(* Inputs of the API probe: the events and response bodies it may be served *)

EvFull1 == Event(1, Obj("A"), Obj("B"), Obj("Cup"), TsNum(1700000000), Obj("Live"))
EvRepeat1 == Event(1, Obj("C"), Obj("D"), Obj("League"), TsNum(0), Obj("Ended"))
EvSparse2 == Event(2, AbsentObj, Obj(KeyAbsent), AbsentObj, TsAbsent, AbsentObj)
EvNullName2 == Event(2, Obj(None), Obj("B"), Obj("Cup"), TsNull, Obj("Live"))
EvNullTeam3 == Event(3, NullObj, Obj("B"), Obj("Cup"), TsNum(0), Obj("Live"))
EvFull3 == Event(3, Obj("E"), Obj("F"), Obj("Cup"), TsNum(0), Obj("Live"))
EvNoId == Event(0, Obj("G"), Obj("H"), Obj("Cup"), TsNum(0), Obj("Live"))

EventPool ==
    {EvFull1, EvRepeat1, EvSparse2, EvNullName2, EvNullTeam3, EvFull3, EvNoId}

EventSeqs == SeqsUpTo(EventPool, MaxEvents)

\* a JSON list under a key, or the key absent
AbsentList == [tag |-> "absent", items |-> <<>>]
ListOf(s) == [tag |-> "list", items |-> s]

\* data["sportItem"]: absent, or an object whose tournaments each hold a list
NoSportItem == [tag |-> "absent", tournaments |-> <<>>]
SportItem(ts) == [tag |-> "obj", tournaments |-> ts]

Data(ev, si) == [events |-> ev, sportItem |-> si]

DataPool ==
    {Data(ListOf(s), NoSportItem) : s \in EventSeqs}
    \cup {Data(e, SportItem(<<ListOf(s)>>)) :
            e \in {AbsentList, ListOf(<<>>)}, s \in EventSeqs \ {<<>>}}

---------------------------------------------------------------------------
(* fetch_live_and_upcoming_matches (api_scraper.py 6-120) *)

\* the list `endpoints` has seven entries
NumEndpoints == 7

\* data.get("events", []), with the sportItem fallback when that is empty
TourEvents(ts) == [k \in 1..Len(ts) |-> ts[k].items]

ExtractEvents(data) ==
    LET top == IF data.events.tag = "list" THEN data.events.items ELSE <<>>
    IN IF top = <<>> /\ data.sportItem.tag = "obj"
       THEN top \o Flatten(TourEvents(data.sportItem.tournaments))
       ELSE top

\* `if not ev_id or ev_id in seen_ids: continue`
SkipEventNoDedup(ev_id, seen) == ev_id = 0
SkipEvent(ev_id, seen) == ev_id = 0 \/ ev_id \in seen

\* matches.append({...})
PrependMatch(ms, m) == <<m>> \o ms
AppendMatch(ms, m) == Append(ms, m)

\* `if len(matches) >= limit: return matches`
LimitNeverReached(ms, lim) == FALSE
LimitReached(ms, lim) == Len(ms) >= lim

\* `except Exception ... continue`: the for loop takes the next endpoint
AbortProbe(i) == NumEndpoints + 1
AfterEndpointError(i) == i + 1

\* the for loop after an endpoint's body ran to its end
AfterEndpointBody(i) == i + 1

LoopAt(j) == IF j > NumEndpoints THEN "api_return" ELSE "api_request"

IoSleep(i) == [op |-> "sleep", at |-> i]
IoLanding(i) == [op |-> "landing", at |-> i]
IoGet(i) == [op |-> "get", at |-> i]

\* what the body does before the request of endpoint i: the delay (57-59)
\* and the landing-page visit (64-67)
Preamble(i) ==
    (IF i > 1 THEN <<IoSleep(i)>> ELSE <<>>)
    \o (IF i = 1 THEN <<IoLanding(i)>> ELSE <<>>)

RequestErrors(i) ==
    {"net_error", "http_error", "bad_json", "bad_shape"}
    \cup (IF i = 1 THEN {"landing_error"} ELSE {})

\* one loop iteration up to the events loop: delay, landing page, GET,
\* raise_for_status, resp.json(), extraction of the events list
ApiRequestFails ==
    /\ pc = "api_request"
    /\ \E kind \in RequestErrors(endpoint_idx) :
         io' = io \o Preamble(endpoint_idx)
                  \o (IF kind = "landing_error" THEN <<>>
                      ELSE <<IoGet(endpoint_idx)>>)
    /\ endpoint_idx' = AfterEndpointError(endpoint_idx)
    /\ pc' = LoopAt(endpoint_idx')
    /\ UNCHANGED <<args, events, seen_ids, matches, result, raised,
                   first_seen, prior_ids, cross_skip, parsed, browserVars>>

ApiRequestOk ==
    /\ pc = "api_request"
    /\ \E data \in DataPool : events' = ExtractEvents(data)
    /\ io' = io \o Preamble(endpoint_idx) \o <<IoGet(endpoint_idx)>>
    /\ parsed' = TRUE
    /\ prior_ids' = seen_ids
    /\ pc' = "api_events"
    /\ UNCHANGED <<args, endpoint_idx, seen_ids, matches, result, raised,
                   first_seen, cross_skip, browserVars>>

Arrival(fs, ev) ==
    IF ev.id # 0 /\ \A k \in 1..Len(fs) : fs[k].id # ev.id
    THEN Append(fs, ev)
    ELSE fs

\* one iteration of `for ev in events` (87-115)
ApiEventSkip ==
    /\ pc = "api_events" /\ events # <<>>
    /\ SkipEvent(Head(events).id, seen_ids)
    /\ events' = Tail(events)
    /\ first_seen' = Arrival(first_seen, Head(events))
    /\ cross_skip' = (cross_skip \/ Head(events).id \in prior_ids)
    /\ UNCHANGED <<args, pc, endpoint_idx, seen_ids, matches, result, raised,
                   io, prior_ids, parsed, browserVars>>

ApiEventRaises ==
    /\ pc = "api_events" /\ events # <<>>
    /\ ~SkipEvent(Head(events).id, seen_ids)
    /\ NormalizeRaises(Head(events))
    /\ seen_ids' = seen_ids \cup {Head(events).id}
    /\ first_seen' = Arrival(first_seen, Head(events))
    /\ events' = <<>>
    /\ endpoint_idx' = AfterEndpointError(endpoint_idx)
    /\ pc' = LoopAt(endpoint_idx')
    /\ UNCHANGED <<args, matches, result, raised, io, prior_ids, cross_skip,
                   parsed, browserVars>>

ApiEventAccept ==
    /\ pc = "api_events" /\ events # <<>>
    /\ ~SkipEvent(Head(events).id, seen_ids)
    /\ ~NormalizeRaises(Head(events))
    /\ seen_ids' = seen_ids \cup {Head(events).id}
    /\ first_seen' = Arrival(first_seen, Head(events))
    /\ matches' = AppendMatch(matches, BuildMatch(Head(events)))
    /\ events' = Tail(events)
    /\ IF LimitReached(matches', limit)
       THEN /\ result' = matches'
            /\ pc' = "done"
       ELSE /\ UNCHANGED <<result, pc>>
    /\ UNCHANGED <<args, endpoint_idx, raised, io, prior_ids, cross_skip,
                   parsed, browserVars>>

ApiEndpointDone ==
    /\ pc = "api_events" /\ events = <<>>
    /\ endpoint_idx' = AfterEndpointBody(endpoint_idx)
    /\ pc' = LoopAt(endpoint_idx')
    /\ UNCHANGED <<args, events, seen_ids, matches, result, raised, io,
                   first_seen, prior_ids, cross_skip, parsed, browserVars>>

\* `return matches` after the loop (120)
ApiReturn ==
    /\ pc = "api_return"
    /\ result' = matches
    /\ pc' = "done"
    /\ UNCHANGED <<args, apiVars, matches, raised, io, browserVars>>

ApiNext ==
    \/ ApiRequestFails
    \/ ApiRequestOk
    \/ ApiEventSkip
    \/ ApiEventRaises
    \/ ApiEventAccept
    \/ ApiEndpointDone
    \/ ApiReturn

---------------------------------------------------------------------------
(* The page as the browser strategies query it.  An element records what    *)
(* the extraction script's DOM queries return on it.                        *)

NoEl == "<no element>"

\* sels: the container selectors the element matches, by position in the
\* script's list; href: its own href when it is an anchor to an event page,
\* "" otherwise; link: the href of its first descendant a[href*="/event/"],
\* "" when it has none; teams: the textContent of the team-name elements in
\* it; tournament, time, status: the textContent of the first such element
\* in it, or NoEl; fault: where the script's processing of the element as a
\* container throws ("none": nowhere; "url": while its link is looked up;
\* "fields": after its URL was added to `seen`)
Element(sels, href, link, teams, tour, time, st) ==
    [sels |-> sels, href |-> href, link |-> link, teams |-> teams,
     tournament |-> tour, time |-> time, status |-> st, fault |-> "none"]

ElAnchor1 ==
    Element({1}, "https://www.sofascore.com/event/1", "",
            <<" A ", "B">>, "Cup", "19:00", "Live")
ElDiv1 ==
    Element({2, 5}, "", "https://www.sofascore.com/event/1",
            <<"C">>, NoEl, NoEl, NoEl)
ElBlock2 ==
    Element({4}, "", "https://www.sofascore.com/event/2",
            <<"D", "E", "F">>, "  ", NoEl, "FT")
ElItemNoLink == Element({3}, "", "", <<"G", "H">>, "Cup", "20:00", "Live")
ElAside == Element({}, "", "https://www.sofascore.com/event/3",
                   <<"I", "J">>, "Cup", "21:00", "Live")

ElementPool == {ElAnchor1, ElDiv1, ElBlock2, ElItemNoLink, ElAside}

\* containers on which a DOM call of the loop body throws
ElAnchor1Throws == [ElAnchor1 EXCEPT !.fault = "fields"]
ElBlock2Throws == [ElBlock2 EXCEPT !.fault = "url"]

ThrowingPool == {ElAnchor1Throws, ElBlock2Throws}

MaxContainers == 3

MaxElements == 2

DomPool == SeqsUpTo(ElementPool, MaxElements)

\* element.textContent.trim(), for the texts the model draws
Trim(t) ==
    CASE t = " A " -> "A"
      [] t = "  " -> ""
      [] OTHER -> t

\* getText(element): element ? element.textContent.trim() : "Unknown"
GetText(t) == IF t = NoEl THEN "Unknown" ELSE Trim(t)

RECURSIVE SelectBy(_, _)
SelectBy(dom, k) ==
    IF dom = <<>> THEN <<>>
    ELSE (IF k \in Head(dom).sels THEN <<Head(dom)>> ELSE <<>>)
         \o SelectBy(Tail(dom), k)

\* [...document.querySelectorAll(s1), ...document.querySelectorAll(s2), ...]
RECURSIVE PooledFirstMatch(_, _)
PooledFirstMatch(dom, nsel) ==
    IF nsel = 0 THEN <<>>
    ELSE IF PooledFirstMatch(dom, nsel - 1) # <<>>
         THEN PooledFirstMatch(dom, nsel - 1)
         ELSE SelectBy(dom, nsel)
Pooled(dom, nsel) == Flatten([k \in 1..nsel |-> SelectBy(dom, k)])

\* the url of a container: its own href, else its first event link
ContainerUrl(el) == IF el.href # "" THEN el.href ELSE el.link

ContainerMatch(el) ==
    [url |-> ContainerUrl(el),
     home_team |-> IF Len(el.teams) >= 2 THEN GetText(el.teams[1]) ELSE "Unknown",
     away_team |-> IF Len(el.teams) >= 2 THEN GetText(el.teams[2]) ELSE "Unknown",
     tournament |-> IF el.tournament # NoEl THEN GetText(el.tournament) ELSE "Unknown",
     start_time |-> IF el.time # NoEl THEN GetText(el.time) ELSE "Unknown",
     status |-> IF el.status # NoEl THEN GetText(el.status) ELSE "Scheduled"]

\* what page.evaluate gives: the script's `matches`, or the error the
\* script ended with
Returned(acc) == [matches |-> acc, raised |-> FALSE]
Raised == [matches |-> <<>>, raised |-> TRUE]

\* try { ... } catch (e) { console.error(...) } around the loop body
ContainerErrorEscapes == FALSE
ContainerErrorCaught == TRUE

\* the loop over the pooled containers, with its `seen` set
RECURSIVE ExtractLoop(_, _, _)
ExtractLoop(cs, seen, acc) ==
    IF cs = <<>> THEN Returned(acc)
    ELSE LET url == ContainerUrl(Head(cs))
         IN IF Head(cs).fault = "url"
            THEN IF ContainerErrorCaught
                 THEN ExtractLoop(Tail(cs), seen, acc)
                 ELSE Raised
            ELSE IF url = "" \/ url \in seen
            THEN ExtractLoop(Tail(cs), seen, acc)
            ELSE IF Head(cs).fault = "fields"
            THEN IF ContainerErrorCaught
                 THEN ExtractLoop(Tail(cs), seen \cup {url}, acc)
                 ELSE Raised
            ELSE ExtractLoop(Tail(cs), seen \cup {url},
                             Append(acc, ContainerMatch(Head(cs))))

\* extract_matches_from_page of browser_scraper.py (five container selectors)
\* and of network_capture.py (the first four of them)
BrowserSelectors == 5
NetworkSelectors == 4

ExtractMatchesFromPage(dom, nsel) ==
    ExtractLoop(Pooled(dom, nsel), {}, <<>>).matches

\* extract_matches_from_page of utils/extractors.py: the selectors come from
\* config.SELECTORS
MatchContainerSelectors == 5
TeamNameSelectors == 5

\* the team-name selectors the team-name element with text t matches, by
\* position in SELECTORS["team_names"]: D carries data-home-team, E carries
\* data-away-team, F has class participant__participantName, the others
\* have class teamName
TeamSelectorsOf(t) ==
    CASE t = "D" -> {3}
      [] t = "E" -> {4}
      [] t = "F" -> {5}
      [] OTHER -> {1}

\* container.querySelectorAll(selector) for the k-th team-name selector
TeamsBy(el, k) == SelectSeq(el.teams, LAMBDA t : k \in TeamSelectorsOf(t))

\* trySelectors(container, selectors): the elements of the first selector
\* that finds any
RECURSIVE TrySelectorsFrom(_, _, _)
TrySelectorsFrom(el, k, n) ==
    IF k > n THEN <<>>
    ELSE IF Len(TeamsBy(el, k)) > 0 THEN TeamsBy(el, k)
         ELSE TrySelectorsFrom(el, k + 1, n)

TrySelectors(el, n) == TrySelectorsFrom(el, 1, n)

ConfiguredMatch(el) ==
    LET teamElements == TrySelectors(el, TeamNameSelectors)
    IN [url |-> ContainerUrl(el),
        home_team |-> IF Len(teamElements) >= 2
                      THEN GetText(teamElements[1]) ELSE "Unknown",
        away_team |-> IF Len(teamElements) >= 2
                      THEN GetText(teamElements[2]) ELSE "Unknown",
        tournament |-> IF el.tournament # NoEl
                       THEN GetText(el.tournament) ELSE "Unknown",
        start_time |-> IF el.time # NoEl THEN GetText(el.time) ELSE "Unknown",
        status |-> IF el.status # NoEl
                   THEN GetText(el.status) ELSE "Scheduled"]

RECURSIVE ConfiguredLoop(_, _, _)
ConfiguredLoop(cs, seen, acc) ==
    IF cs = <<>> THEN Returned(acc)
    ELSE LET url == ContainerUrl(Head(cs))
         IN IF Head(cs).fault = "url"
            THEN IF ContainerErrorCaught
                 THEN ConfiguredLoop(Tail(cs), seen, acc)
                 ELSE Raised
            ELSE IF url = "" \/ url \in seen
            THEN ConfiguredLoop(Tail(cs), seen, acc)
            ELSE IF Head(cs).fault = "fields"
            THEN IF ContainerErrorCaught
                 THEN ConfiguredLoop(Tail(cs), seen \cup {url}, acc)
                 ELSE Raised
            ELSE ConfiguredLoop(Tail(cs), seen \cup {url},
                                Append(acc, ConfiguredMatch(Head(cs))))

ExtractMatchesConfigured(dom) ==
    ConfiguredLoop(Pooled(dom, MatchContainerSelectors), {}, <<>>)

\* the script of the function named fn, on a page
ExtractScript(fn, dom, nsel) ==
    IF fn = "extractors" THEN ExtractMatchesConfigured(dom)
    ELSE ExtractLoop(Pooled(dom, nsel), {}, <<>>)

---------------------------------------------------------------------------
(* fetch_matches_with_browser (browser_scraper.py 8-87) *)

IoStep(op) == [op |-> op, at |-> 0]

\* matches_data[:limit], for limit >= 0
SliceAll(s, n) == s
Slice(s, n) == SubSeq(s, 1, IF n < Len(s) THEN n ELSE Len(s))

\* the browser outlives the script
WithExitLeavesOpen(open) == open

\* an exception leaves `with sync_playwright() as p:` (15; network_capture.py
\* 19): the exit of the block stops Playwright and with it the browser it
\* launched, which is why the script waits for Enter to keep one open (79-80)
WithExit(open) == FALSE

\* launch, new_context, new_page (15-23): outside the try
BrLaunch ==
    /\ pc = "br_launch"
    /\ \/ /\ browser_open' = TRUE
          /\ io' = Append(io, IoStep("launch"))
          /\ pc' = "br_goto"
          /\ UNCHANGED raised
       \/ /\ raised' = TRUE
          /\ pc' = "done"
          /\ UNCHANGED <<browser_open, io>>
    /\ UNCHANGED <<args, apiVars, matches, result, pending>>

\* page.goto and the CAPTCHA check (28-31)
BrGoto ==
    /\ pc = "br_goto"
    /\ io' = Append(io, IoStep("goto"))
    /\ pc' \in {"br_captcha", "br_load", "br_except"}
    /\ UNCHANGED <<args, apiVars, matches, result, raised, browser_open,
                   pending>>

\* input("Press Enter when you've completed the CAPTCHA... ") returns (34)
BrCaptchaEnter ==
    /\ pc = "br_captcha"
    /\ pc' = "br_load"
    /\ UNCHANGED <<args, apiVars, matches, result, raised, io, browser_open,
                   pending>>

\* wait_for_load_state, screenshot, scrolling (38-51)
BrLoad ==
    /\ pc = "br_load"
    /\ pc' \in {"br_extract", "br_except"}
    /\ UNCHANGED <<args, apiVars, matches, result, raised, io, browser_open,
                   pending>>

\* extraction and the raw-data dump (55-67)
BrExtract ==
    /\ pc = "br_extract"
    /\ \/ /\ pc' = "br_except"
          /\ UNCHANGED <<matches, io>>
       \/ \E dom \in DomPool :
            LET matches_data == ExtractMatchesFromPage(dom, BrowserSelectors)
            IN /\ matches' = IF matches_data # <<>>
                             THEN matches \o Slice(matches_data, limit)
                             ELSE matches
               /\ io' = Append(io, IoStep("extract"))
               /\ pc' \in {"br_finally", "br_except"}
    /\ UNCHANGED <<args, apiVars, result, raised, browser_open, pending>>

\* the except clause (69-71): its own screenshot may raise in turn
BrExcept ==
    /\ pc = "br_except"
    /\ pending' \in BOOLEAN
    /\ pc' = "br_finally"
    /\ UNCHANGED <<args, apiVars, matches, result, raised, io, browser_open>>

\* the finally clause (73-85) and `return matches` (87)
BrFinally ==
    /\ pc = "br_finally"
    /\ \/ /\ browser_open' = FALSE
          /\ io' = Append(io, IoStep("close"))
          /\ raised' = pending
       \/ /\ raised' = TRUE
          /\ browser_open' = WithExit(browser_open)
          /\ UNCHANGED io
    /\ result' = IF raised' THEN <<>> ELSE matches
    /\ pc' = "done"
    /\ UNCHANGED <<args, apiVars, matches, pending>>

BrowserNext ==
    \/ BrLaunch
    \/ BrGoto
    \/ BrCaptchaEnter
    \/ BrLoad
    \/ BrExtract
    \/ BrExcept
    \/ BrFinally

---------------------------------------------------------------------------
(* fetch_matches_with_cookies (network_capture.py 8-101) *)

\* `if match["url"] not in seen_urls`
SeenUrlNever(url, seen_urls) == FALSE
SeenUrl(url, seen_urls) == url \in seen_urls

\* the loop "Remove duplicates and limit results" (91-99)
RECURSIVE UniqueLoop(_, _, _, _)
UniqueLoop(ms, seen_urls, unique_matches, lim) ==
    IF ms = <<>> THEN unique_matches
    ELSE IF SeenUrl(Head(ms).url, seen_urls)
         THEN UniqueLoop(Tail(ms), seen_urls, unique_matches, lim)
         ELSE LET appended == Append(unique_matches, Head(ms))
              IN IF Len(appended) >= lim
                 THEN appended
                 ELSE UniqueLoop(Tail(ms), seen_urls \cup {Head(ms).url},
                                 appended, lim)

\* an exception leaves the function: nothing in it catches
NetRaise ==
    /\ raised' = TRUE
    /\ pc' = "done"
    /\ browser_open' = WithExit(browser_open)
    /\ UNCHANGED <<matches, result, io>>

\* launch, new_context, new_page, page.on (19-41)
NetLaunch ==
    /\ pc = "net_launch"
    /\ \/ /\ browser_open' = TRUE
          /\ io' = Append(io, IoStep("launch"))
          /\ pc' = "net_goto"
          /\ UNCHANGED <<raised, matches, result>>
       \/ NetRaise
    /\ UNCHANGED <<args, apiVars, pending>>

\* page.goto and the CAPTCHA check (45-48)
NetGoto ==
    /\ pc = "net_goto"
    /\ \/ /\ pc' \in {"net_captcha", "net_load"}
          /\ io' = Append(io, IoStep("goto"))
          /\ UNCHANGED <<raised, browser_open, matches, result>>
       \/ NetRaise
    /\ UNCHANGED <<args, apiVars, pending>>

\* input("Press Enter when you've completed the CAPTCHA... ") returns (51)
NetCaptchaEnter ==
    /\ pc = "net_captcha"
    /\ pc' = "net_load"
    /\ UNCHANGED <<args, apiVars, matches, result, raised, io, browser_open,
                   pending>>

\* wait_for_load_state, screenshot, interact_with_page (54-59)
NetLoad ==
    /\ pc = "net_load"
    /\ \/ /\ pc' = "net_extract"
          /\ UNCHANGED <<raised, browser_open, matches, result, io>>
       \/ NetRaise
    /\ UNCHANGED <<args, apiVars, pending>>

\* extraction (63-66)
NetExtract ==
    /\ pc = "net_extract"
    /\ \/ /\ \E dom \in DomPool :
               matches' = matches
                          \o ExtractMatchesFromPage(dom, NetworkSelectors)
          /\ io' = Append(io, IoStep("extract"))
          /\ pc' = "net_save"
          /\ UNCHANGED <<raised, browser_open, result>>
       \/ NetRaise
    /\ UNCHANGED <<args, apiVars, pending>>

\* the request log and the cookies are written, the browser is closed (69-88)
NetSave ==
    /\ pc = "net_save"
    /\ \/ /\ browser_open' = FALSE
          /\ io' = Append(io, IoStep("close"))
          /\ pc' = "net_unique"
          /\ UNCHANGED <<raised, matches, result>>
       \/ NetRaise
    /\ UNCHANGED <<args, apiVars, pending>>

\* the dedup loop and `return unique_matches` (91-101)
NetUnique ==
    /\ pc = "net_unique"
    /\ result' = UniqueLoop(matches, {}, <<>>, limit)
    /\ pc' = "done"
    /\ UNCHANGED <<args, apiVars, matches, raised, io, browser_open, pending>>

NetworkNext ==
    \/ NetLaunch
    \/ NetGoto
    \/ NetCaptchaEnter
    \/ NetLoad
    \/ NetExtract
    \/ NetSave
    \/ NetUnique

---------------------------------------------------------------------------
(* The pipeline: one call of one strategy with a limit >= 0 *)

Strategies == {"api", "browser", "network"}

EntryPc(s) ==
    CASE s = "api" -> "api_request"
      [] s = "browser" -> "br_launch"
      [] s = "network" -> "net_launch"

PipeStart ==
    /\ strategy \in Strategies
    /\ limit \in 0..MaxLimit
    /\ pc = EntryPc(strategy)
    /\ endpoint_idx = 1
    /\ events = <<>>
    /\ seen_ids = {}
    /\ matches = <<>>
    /\ result = <<>>
    /\ raised = FALSE
    /\ io = <<>>
    /\ first_seen = <<>>
    /\ prior_ids = {}
    /\ cross_skip = FALSE
    /\ parsed = FALSE
    /\ browser_open = FALSE
    /\ pending = FALSE

\* no strategy is running
PipeIdle ==
    /\ strategy = "none"
    /\ limit = 0
    /\ pc = "idle"
    /\ endpoint_idx = 1
    /\ events = <<>>
    /\ seen_ids = {}
    /\ matches = <<>>
    /\ result = <<>>
    /\ raised = FALSE
    /\ io = <<>>
    /\ first_seen = <<>>
    /\ prior_ids = {}
    /\ cross_skip = FALSE
    /\ parsed = FALSE
    /\ browser_open = FALSE
    /\ pending = FALSE

\* extract_matches_from_api_response is not running
NormIdle ==
    /\ norm_data = Data(AbsentList, NoSportItem)
    /\ norm_pc = "idle"
    /\ norm_result = <<>>
    /\ norm_raised = FALSE

\* is_captcha_present is not running
DetIdle ==
    /\ page_selectors = {}
    /\ page_title = <<>>
    /\ page_content = <<>>
    /\ det_pc = "idle"
    /\ det_result = FALSE

\* neither handle_captcha nor wait_for_captcha_solution is running
CapIdle ==
    /\ entry = "none"
    /\ max_attempts = 0
    /\ hc_pc = "idle"
    /\ attempts = 0
    /\ hc_result = "none"
    /\ wait_calls = 0
    /\ w_pc = "idle"
    /\ captcha_timeout = 0
    /\ start_time = -1
    /\ solved = FALSE
    /\ w_result = FALSE
    /\ depth = 0
    /\ timeout0 = 0
    /\ first_start = -1
    /\ caller_timeout = 0
    /\ charged = 0
    /\ loop_entered = FALSE
    /\ last_pass = -1
    /\ now = 0
    /\ stdin_lines = 0
    /\ presses = 0
    /\ reader = "none"
    /\ stale_readers = 0
    /\ stale_fed = 0
    /\ page_captcha = FALSE

\* main is not running: a strategy function is called directly
MainIdle ==
    /\ method = "none"
    /\ cli_limit = 0
    /\ headless = FALSE
    /\ save_only = FALSE
    /\ main_pc = "idle"
    /\ main_matches = <<>>
    /\ scrape_error = FALSE
    /\ saved_file = "none"
    /\ write_error = FALSE
    /\ console = "none"
    /\ printed = <<>>
    /\ exit_code = -1

PaceIdle ==
    /\ pace_pc = "idle"
    /\ pace_idx = 0
    /\ pace_log = <<>>

ClickIdle ==
    /\ avoid_links = FALSE
    /\ click_page = <<>>
    /\ click_pc = "idle"
    /\ click_tries = 0
    /\ click_log = <<>>

ScrollIdle ==
    /\ iterations_given = FALSE
    /\ iterations = 0
    /\ screenshot_prefix = FALSE
    /\ scroll_pc = "idle"
    /\ scroll_log = <<>>

ExtIdle ==
    /\ ext_fn = "none"
    /\ ext_dom = <<>>
    /\ ext_pc = "idle"
    /\ ext_result = <<>>
    /\ ext_raised = FALSE

Init == PipeStart /\ NormIdle /\ DetIdle /\ CapIdle /\ MainIdle /\ ExtIdle
    /\ PaceIdle /\ ClickIdle /\ ScrollIdle

Next ==
    \/ ApiNext
    \/ BrowserNext
    \/ NetworkNext

Spec == Init /\ [][Next]_vars

\* the steps that need no line typed at a CAPTCHA prompt
Unattended ==
    \/ ApiNext
    \/ BrLaunch \/ BrGoto \/ BrLoad \/ BrExtract \/ BrExcept \/ BrFinally
    \/ NetLaunch \/ NetGoto \/ NetLoad \/ NetExtract \/ NetSave \/ NetUnique

\* the strategy runs on by itself; whether and when the operator presses
\* Enter at the prompt of browser_scraper.py 34 or network_capture.py 51 is
\* up to the operator
SpecUnattended == Init /\ [][Next]_vars /\ WF_vars(Unattended)

---------------------------------------------------------------------------
(* extract_matches_from_api_response (extractors.py 150-207), called on one *)
(* response                                                                 *)

\* "Pattern 1: direct events array", elif "Pattern 2" (163-174)
ExtractEventsStrict(data) ==
    IF data.events.tag = "list" THEN data.events.items
    ELSE IF data.sportItem.tag = "obj"
         THEN Flatten(TourEvents(data.sportItem.tournaments))
         ELSE <<>>

\* the loop "Process events" (177-205): the first event whose normalisation
\* raises ends the call
RECURSIVE ProcessEvents(_, _, _)
ProcessEvents(evs, seen, acc) ==
    IF evs = <<>> THEN [raised |-> FALSE, matches |-> acc]
    ELSE IF SkipEvent(Head(evs).id, seen)
         THEN ProcessEvents(Tail(evs), seen, acc)
         ELSE IF NormalizeRaises(Head(evs))
              THEN [raised |-> TRUE, matches |-> <<>>]
              ELSE ProcessEvents(Tail(evs), seen \cup {Head(evs).id},
                                 Append(acc, BuildMatch(Head(evs))))

\* every shape of a nested object, and of startTimestamp
ObjSpace ==
    {AbsentObj, NullObj, Obj(KeyAbsent), Obj(None), Obj(""), Obj("A")}

TsSpace == {TsAbsent, TsNull, TsNum(0), TsNum(1700000000), TsStr(0)}

EventSpace ==
    {Event(id, h, a, t, ts, st) :
        id \in {0, 1}, h \in ObjSpace, a \in ObjSpace, t \in ObjSpace,
        ts \in TsSpace, st \in ObjSpace}

NormStart ==
    /\ norm_data \in {Data(ListOf(<<ev>>), NoSportItem) : ev \in EventSpace}
                     \cup DataPool
    /\ norm_pc = "ready"
    /\ norm_result = <<>>
    /\ norm_raised = FALSE

ApiResponseExtract ==
    /\ norm_pc = "ready"
    /\ LET out == ProcessEvents(ExtractEventsStrict(norm_data), {}, <<>>)
       IN /\ norm_result' = out.matches
          /\ norm_raised' = out.raised
    /\ norm_pc' = "done"
    /\ UNCHANGED <<norm_data, pipeVars, detVars, capVars, mainVars,
                   extVars, paceVars, uiVars>>

InitNorm == PipeIdle /\ NormStart /\ DetIdle /\ CapIdle /\ MainIdle /\ ExtIdle
    /\ PaceIdle /\ ClickIdle /\ ScrollIdle

SpecNorm == InitNorm /\ [][ApiResponseExtract]_vars

\* the response holds one event, with a truthy id
OneEvent ==
    /\ norm_data.events.tag = "list"
    /\ Len(norm_data.events.items) = 1
    /\ norm_data.events.items[1].id # 0

Missing(obj) == obj.tag # "obj" \/ obj.name \in {KeyAbsent, None, ""}

Resolved(obj, sentinel) == IF Missing(obj) THEN sentinel ELSE obj.name

\* C5: normalising an API event never raises, and a nested field that is
\* absent, null or empty comes out as its sentinel ("Unknown", "Scheduled"
\* for the status) while every other field comes out as the event has it.
C5_MissingFieldSentinel ==
    (norm_pc = "done" /\ OneEvent) =>
        LET ev == norm_data.events.items[1]
        IN /\ ~norm_raised
           /\ Len(norm_result) = 1
           /\ norm_result[1].home_team = Resolved(ev.homeTeam, "Unknown")
           /\ norm_result[1].away_team = Resolved(ev.awayTeam, "Unknown")
           /\ norm_result[1].tournament = Resolved(ev.tournament, "Unknown")
           /\ norm_result[1].status = Resolved(ev.status, "Scheduled")
           /\ norm_result[1].start_time =
                 (IF ev.startTimestamp.tag = "num"
                  THEN FormatTimestamp(ev.startTimestamp.val)
                  ELSE "Unknown")

---------------------------------------------------------------------------
(* is_captcha_present (captcha_handler.py 14-51).  The page is what the     *)
(* three queries return: the selectors page.query_selector finds an element *)
(* for, page.title() and page.content(), texts being sequences of           *)
(* characters.                                                              *)

\* SELECTORS["captcha"] (config.py 48-56)
CaptchaSelectors ==
    {"iframe[src*='captcha']", "iframe[src*='recaptcha']",
     "iframe[src*='cloudflare']", ".captcha-container", "#captcha",
     "div.g-recaptcha", "div[class*='captcha']"}

UpperCase ==
    <<"A", "B", "C", "D", "E", "F", "G", "H", "I", "J", "K", "L", "M",
      "N", "O", "P", "Q", "R", "S", "T", "U", "V", "W", "X", "Y", "Z">>

LowerCase ==
    <<"a", "b", "c", "d", "e", "f", "g", "h", "i", "j", "k", "l", "m",
      "n", "o", "p", "q", "r", "s", "t", "u", "v", "w", "x", "y", "z">>

\* str.lower() on one character
LowerChar(c) ==
    IF \E i \in 1..26 : UpperCase[i] = c
    THEN LowerCase[CHOOSE i \in 1..26 : UpperCase[i] = c]
    ELSE c

\* str.lower()
Lower(s) == [i \in 1..Len(s) |-> LowerChar(s[i])]

\* the "in" operator on strings: term is a substring of s
Contains(s, term) ==
    \E i \in 0..(Len(s) - Len(term)) : SubSeq(s, i + 1, i + Len(term)) = term

TermCaptcha ==
    <<"c", "a", "p", "t", "c", "h", "a">>

TermSecurityCheck ==
    <<"s", "e", "c", "u", "r", "i", "t", "y", " ", "c", "h", "e", "c", "k">>

TermCloudflare ==
    <<"c", "l", "o", "u", "d", "f", "l", "a", "r", "e">>

TermHumanVerification ==
    <<"h", "u", "m", "a", "n", " ", "v", "e", "r", "i", "f", "i", "c", "a",
      "t", "i", "o", "n">>

TermVerifyHuman ==
    <<"v", "e", "r", "i", "f", "y", " ", "y", "o", "u", " ", "a", "r", "e",
      " ", "h", "u", "m", "a", "n">>

TermBotProtection ==
    <<"b", "o", "t", " ", "p", "r", "o", "t", "e", "c", "t", "i", "o", "n">>

TermProveHuman ==
    <<"p", "r", "o", "v", "e", " ", "y", "o", "u", " ", "a", "r", "e", " ",
      "h", "u", "m", "a", "n">>

TermCompleteCheck ==
    <<"c", "o", "m", "p", "l", "e", "t", "e", " ", "t", "h", "e", " ", "s",
      "e", "c", "u", "r", "i", "t", "y", " ", "c", "h", "e", "c", "k">>

TermAccessDenied ==
    <<"a", "c", "c", "e", "s", "s", " ", "d", "e", "n", "i", "e", "d">>

TermDdosProtection ==
    <<"d", "d", "o", "s", " ", "p", "r", "o", "t", "e", "c", "t", "i", "o",
      "n">>

\* captcha_title_terms (31)
CaptchaTitleTerms ==
    {TermCaptcha, TermSecurityCheck, TermCloudflare, TermHumanVerification}

\* captcha_content_terms (37-47)
CaptchaContentTerms ==
    {TermCaptcha, TermSecurityCheck, TermCloudflare, TermVerifyHuman,
     TermBotProtection, TermProveHuman, TermCompleteCheck, TermAccessDenied,
     TermDdosProtection}

\* 25-27: some configured selector finds an element
SelectorSignal(selectors) == \E s \in CaptchaSelectors : s \in selectors

\* 30-33
TitleSignal(title) == \E term \in CaptchaTitleTerms : Contains(Lower(title), term)

\* 36-49
ContentSignal(content) ==
    \E term \in CaptchaContentTerms : Contains(Lower(content), term)

\* the content is never looked at
IsCaptchaPresentNoContent(selectors, title, content) ==
    IF SelectorSignal(selectors) THEN TRUE
    ELSE IF TitleSignal(title) THEN TRUE
    ELSE FALSE

\* the three checks in the order of the code, each returning at once
IsCaptchaPresent(selectors, title, content) ==
    IF SelectorSignal(selectors) THEN TRUE
    ELSE IF TitleSignal(title) THEN TRUE
    ELSE IF ContentSignal(content) THEN TRUE
    ELSE FALSE

\* pages the detector is run on
TitleScores ==
    <<"L", "i", "v", "e", " ", "s", "c", "o", "r", "e", "s">>

TitleSecurityCheck ==
    <<"S", "e", "c", "u", "r", "i", "t", "y", " ", "C", "h", "e", "c", "k">>

TitleMoment ==
    <<"J", "u", "s", "t", " ", "a", " ", "m", "o", "m", "e", "n", "t", ".",
      ".", ".">>

TitleAccessDenied ==
    <<"A", "c", "c", "e", "s", "s", " ", "D", "e", "n", "i", "e", "d">>

TitleHumanVerification ==
    <<"H", "u", "m", "a", "n", " ", "V", "e", "r", "i", "f", "i", "c", "a",
      "t", "i", "o", "n">>

TitleCaptcha ==
    <<"r", "e", "C", "A", "P", "T", "C", "H", "A">>

ContentScores ==
    <<"<", "p", ">", "L", "i", "v", "e", " ", "s", "c", "o", "r", "e", "s",
      "<", "/", "p", ">">>

ContentAccessDenied ==
    <<"<", "h", "1", ">", "A", "c", "c", "e", "s", "s", " ", "D", "e", "n",
      "i", "e", "d", "<", "/", "h", "1", ">">>

ContentVerifyHuman ==
    <<"<", "p", ">", "V", "e", "r", "i", "f", "y", " ", "y", "o", "u", " ",
      "a", "r", "e", " ", "h", "u", "m", "a", "n", "<", "/", "p", ">">>

ContentDdos ==
    <<"<", "p", ">", "D", "D", "o", "S", " ", "p", "r", "o", "t", "e", "c",
      "t", "i", "o", "n", "<", "/", "p", ">">>

ContentHumanVerification ==
    <<"<", "p", ">", "H", "u", "m", "a", "n", " ", "v", "e", "r", "i", "f",
      "i", "c", "a", "t", "i", "o", "n", "<", "/", "p", ">">>

ContentCapt ==
    <<"<", "p", ">", "c", "a", "p", "t", " ", "c", "h", "a", "<", "/", "p",
      ">">>

TitlePool ==
    {TitleScores, TitleSecurityCheck, TitleMoment, TitleAccessDenied,
     TitleHumanVerification, TitleCaptcha}

ContentPool ==
    {ContentScores, ContentAccessDenied, ContentVerifyHuman, ContentDdos,
     ContentHumanVerification, ContentCapt}

SelectorPool ==
    {{}, {"#captcha"}, {"a[href*='/event/']"},
     {"a[href*='/event/']", "div.g-recaptcha", "div[class*='captcha']"}}

DetStart ==
    /\ page_selectors \in SelectorPool
    /\ page_title \in TitlePool
    /\ page_content \in ContentPool
    /\ det_pc = "ready"
    /\ det_result = FALSE

DetectCaptcha ==
    /\ det_pc = "ready"
    /\ det_result' = IsCaptchaPresent(page_selectors, page_title, page_content)
    /\ det_pc' = "done"
    /\ UNCHANGED <<page_selectors, page_title, page_content, pipeVars, normVars,
                   capVars, mainVars,
                   extVars, paceVars, uiVars>>

InitDetect == PipeIdle /\ NormIdle /\ DetStart /\ CapIdle /\ MainIdle /\ ExtIdle
    /\ PaceIdle /\ ClickIdle /\ ScrollIdle

SpecDetect == InitDetect /\ [][DetectCaptcha]_vars

\* C7: the result is the disjunction of the three signals of the page as it
\* was given (a selector match, a phrase in the lower-cased title, a phrase
\* in the lower-cased content), and the call leaves the page as it was.
C7_DetectIsDisjunction ==
    /\ [](det_pc = "done" =>
            /\ det_result = (\/ SelectorSignal(page_selectors)
                             \/ TitleSignal(page_title)
                             \/ ContentSignal(page_content))
            /\ page_selectors = {"#captcha"} => det_result
            /\ page_title = TitleSecurityCheck => det_result
            /\ page_content = ContentDdos => det_result
            /\ (/\ page_selectors = {"a[href*='/event/']"}
                /\ page_title = TitleAccessDenied
                /\ page_content = ContentHumanVerification) => ~det_result)
    /\ [][/\ page_selectors' = page_selectors
          /\ page_title' = page_title
          /\ page_content' = page_content]_vars

\* the content alone gives the challenge away
C7_Witness ==
    /\ det_pc = "done"
    /\ det_result
    /\ ~SelectorSignal(page_selectors)
    /\ ~TitleSignal(page_title)
    /\ ContentSignal(page_content)

---------------------------------------------------------------------------
(* wait_for_captcha_solution (captcha_handler.py 53-108) and handle_captcha *)
(* (110-147).  Time is in seconds.  A polling loop is followed from one     *)
(* look at result["solved"] to a later one; the operator, the input threads *)
(* and the page act in between.                                             *)

MaxTimeout == 3      \* largest timeout of a direct call
MaxAttempts == 2     \* largest max_attempts
MaxPresses == 1      \* lines the operator types in one run
MaxSetup == 0        \* seconds a call takes before it reads start_time
MaxLoadWait == 0     \* seconds wait_for_load_state takes when it returns

\* def wait_for_captcha_solution(page, captcha_timeout=300)
DefaultCaptchaTimeout == 300

\* time.sleep(2) after the signal (96)
SettleSeconds == 2

\* time.sleep(3) in handle_captcha (135)
RedirectSeconds == 3

Max(a, b) == IF a >= b THEN a ELSE b

Elapsed == now - start_time

\* the loop is entered also when the budget is just used up
PollContinuesAtDeadline(elapsed, timeout) == elapsed <= timeout

\* while time.time() - start_time < captcha_timeout (91)
PollContinues(elapsed, timeout) == elapsed < timeout

\* the nested wait starts over with the caller's whole budget
RestartedBudget(timeout, elapsed) == timeout

\* captcha_timeout - (time.time() - start_time) (102)
RemainingBudget(timeout, elapsed) == timeout - elapsed

\* one attempt too many
AttemptsLeftInclusive(n, max) == n <= max

\* while attempts < max_attempts (123)
AttemptsLeft(n, max) == n < max

\* the elapsed times at which a loop that slept since `elapsed` next looks at
\* the flag: every second of a short wait, the first seconds and the last
\* two of a long one
PollPoints(timeout, elapsed) ==
    {p \in (elapsed + 1)..Max(timeout, elapsed + 1) :
        p <= MaxTimeout \/ p >= timeout - 1}

\* the input thread of a call that returns stays blocked in input()
LeftBlocked == IF reader = "blocked" THEN 1 ELSE 0

\* 64-90: screenshot, prompt, input thread started, start_time read
WaitSetup ==
    /\ w_pc = "setup"
    /\ \E ok \in BOOLEAN, d \in 0..MaxSetup :
          /\ now' = now + d
          /\ IF ok
             THEN /\ w_pc' = "poll"
                  /\ solved' = FALSE
                  /\ reader' = "blocked"
                  /\ start_time' = now'
                  /\ first_start' = IF depth = 1 THEN now' ELSE first_start
                  /\ loop_entered' = FALSE
             ELSE /\ w_pc' = "raised"
                  /\ UNCHANGED <<solved, reader, start_time, first_start,
                                 loop_entered>>
    /\ UNCHANGED <<captcha_timeout, depth, timeout0, caller_timeout, charged,
                   last_pass, w_result, stale_readers, stdinVars, page_captcha,
                   entry, max_attempts, hcVars, pipeVars, normVars, detVars, mainVars,
                   extVars, paceVars, uiVars>>

\* 91, 107-108: the loop condition fails, also when the flag is set
WaitTimeout ==
    /\ w_pc = "poll"
    /\ ~PollContinues(Elapsed, captcha_timeout)
    /\ w_pc' = "returned"
    /\ w_result' = FALSE
    /\ stale_readers' = stale_readers + LeftBlocked
    /\ reader' = "none"
    /\ UNCHANGED <<frameVars, now, stdinVars, page_captcha, entry,
                   max_attempts, hcVars, pipeVars, normVars, detVars, mainVars,
                   extVars, paceVars, uiVars>>

\* 91-92, 105: passes of the loop that find the flag unset, and their sleeps
WaitPollSleep ==
    /\ w_pc = "poll"
    /\ PollContinues(Elapsed, captcha_timeout)
    /\ ~solved
    /\ loop_entered' = TRUE
    /\ last_pass' = charged + Elapsed
    /\ \E p \in PollPoints(captcha_timeout, Elapsed) : now' = start_time + p
    /\ UNCHANGED <<captcha_timeout, start_time, solved, depth, timeout0,
                   first_start, caller_timeout, charged, w_pc, w_result,
                   threadVars, stdinVars, page_captcha, entry, max_attempts,
                   hcVars, pipeVars, normVars, detVars, mainVars,
                   extVars, paceVars, uiVars>>

\* 91-93: a pass of the loop finds the flag set
WaitSeesSignal ==
    /\ w_pc = "poll"
    /\ PollContinues(Elapsed, captcha_timeout)
    /\ solved
    /\ loop_entered' = TRUE
    /\ last_pass' = charged + Elapsed
    /\ w_pc' = "settle"
    /\ UNCHANGED <<captcha_timeout, start_time, solved, depth, timeout0,
                   first_start, caller_timeout, charged, now, w_result,
                   threadVars, stdinVars, page_captcha, entry, max_attempts,
                   hcVars, pipeVars, normVars, detVars, mainVars,
                   extVars, paceVars, uiVars>>

\* 96-97: time.sleep(2), then wait_for_load_state, which returns or raises
WaitSettle ==
    /\ w_pc = "settle"
    /\ \E ok \in BOOLEAN, load \in 0..MaxLoadWait :
          /\ now' = now + SettleSeconds + load
          /\ w_pc' = IF ok THEN "verify" ELSE "raised"
    /\ UNCHANGED <<frameVars, w_result, threadVars, stdinVars, page_captcha,
                   entry, max_attempts, hcVars, pipeVars, normVars, detVars, mainVars,
                   extVars, paceVars, uiVars>>

\* the signal is taken at its word
VerifySkipped(captcha) == FALSE

\* if is_captcha_present(page) (100)
VerifyDetects(captcha) == captcha

\* 100-104: the challenge is looked for again; when it is still there the
\* function calls itself with what is left of its budget
WaitVerify ==
    /\ w_pc = "verify"
    /\ \E ok \in BOOLEAN :
          IF ~ok
          THEN /\ w_pc' = "raised"
               /\ UNCHANGED <<frameVars, w_result>>
          ELSE IF VerifyDetects(page_captcha)
               THEN /\ w_pc' = "setup"
                    /\ captcha_timeout' =
                          RemainingBudget(captcha_timeout, Elapsed)
                    /\ caller_timeout' = captcha_timeout
                    /\ charged' = charged + Elapsed
                    /\ depth' = depth + 1
                    /\ UNCHANGED <<start_time, solved, timeout0, first_start,
                                   loop_entered, last_pass, w_result>>
               ELSE /\ w_pc' = "returned"
                    /\ w_result' = TRUE
                    /\ UNCHANGED frameVars
    /\ reader' = "none"
    /\ UNCHANGED <<stale_readers, now, stdinVars, page_captcha, entry,
                   max_attempts, hcVars, pipeVars, normVars, detVars, mainVars,
                   extVars, paceVars, uiVars>>

\* 123-130: the loop test, the detection, and the call of
\* wait_for_captcha_solution(page) with its default timeout
HcLoop ==
    /\ hc_pc = "loop"
    /\ IF ~AttemptsLeft(attempts, max_attempts)
       THEN /\ hc_pc' = "done"
            /\ hc_result' = "False"
            /\ UNCHANGED <<attempts, wait_calls, w_pc, frameVars>>
       ELSE \E ok \in BOOLEAN :
              IF ~ok
              THEN /\ hc_pc' = "done"
                   /\ hc_result' = "raised"
                   /\ UNCHANGED <<attempts, wait_calls, w_pc, frameVars>>
              ELSE IF ~page_captcha
                   THEN /\ hc_pc' = "done"
                        /\ hc_result' = "True"
                        /\ UNCHANGED <<attempts, wait_calls, w_pc, frameVars>>
                   ELSE /\ hc_pc' = "waiting"
                        /\ attempts' = attempts + 1
                        /\ wait_calls' = wait_calls + 1
                        /\ w_pc' = "setup"
                        /\ captcha_timeout' = DefaultCaptchaTimeout
                        /\ timeout0' = DefaultCaptchaTimeout
                        /\ caller_timeout' = DefaultCaptchaTimeout
                        /\ depth' = 1
                        /\ charged' = 0
                        /\ last_pass' = -1
                        /\ loop_entered' = FALSE
                        /\ solved' = FALSE
                        /\ start_time' = -1
                        /\ first_start' = -1
                        /\ UNCHANGED hc_result
    /\ UNCHANGED <<w_result, now, threadVars, stdinVars, page_captcha, entry,
                   max_attempts, pipeVars, normVars, detVars, mainVars,
                   extVars, paceVars, uiVars>>

\* 130-144: the wait has ended; after a True the screenshot and time.sleep(3)
HcAfterWait ==
    /\ hc_pc = "waiting"
    /\ w_pc \in {"returned", "raised"}
    /\ w_pc' = "idle"
    /\ IF w_pc = "raised"
       THEN /\ hc_pc' = "done"
            /\ hc_result' = "raised"
            /\ now' = now
       ELSE IF w_result
            THEN \E ok \in BOOLEAN :
                    IF ok
                    THEN /\ hc_pc' = "recheck"
                         /\ now' = now + RedirectSeconds
                         /\ UNCHANGED hc_result
                    ELSE /\ hc_pc' = "done"
                         /\ hc_result' = "raised"
                         /\ now' = now
            ELSE /\ hc_pc' = "loop"
                 /\ now' = now
                 /\ UNCHANGED hc_result
    /\ UNCHANGED <<attempts, wait_calls, w_result, frameVars, threadVars,
                   stdinVars, page_captcha, entry, max_attempts, pipeVars,
                   normVars, detVars, mainVars,
                   extVars, paceVars, uiVars>>

\* 138-142: the detection after the pause
HcRecheck ==
    /\ hc_pc = "recheck"
    /\ \E ok \in BOOLEAN :
          IF ~ok
          THEN /\ hc_pc' = "done"
               /\ hc_result' = "raised"
          ELSE IF ~page_captcha
               THEN /\ hc_pc' = "done"
                    /\ hc_result' = "True"
               ELSE /\ hc_pc' = "loop"
                    /\ UNCHANGED hc_result
    /\ UNCHANGED <<attempts, wait_calls, w_pc, w_result, frameVars, now,
                   threadVars, stdinVars, page_captcha, entry, max_attempts,
                   pipeVars, normVars, detVars, mainVars,
                   extVars, paceVars, uiVars>>

\* the called function has not ended
CapRunning ==
    IF entry = "handle" THEN hc_pc # "done"
    ELSE w_pc \notin {"returned", "raised"}

\* the operator presses Enter
OperatorEnter ==
    /\ CapRunning
    /\ presses < MaxPresses
    /\ stdin_lines' = stdin_lines + 1
    /\ presses' = presses + 1
    /\ UNCHANGED <<stale_fed, entry, max_attempts, hcVars, w_pc, w_result,
                   frameVars, now, threadVars, page_captcha, pipeVars,
                   normVars, detVars, mainVars,
                   extVars, paceVars, uiVars>>

\* 79-81: input() returns in the thread of the innermost call
InputThreadReads ==
    /\ CapRunning
    /\ stdin_lines > 0
    /\ reader = "blocked"
    /\ stdin_lines' = stdin_lines - 1
    /\ reader' = "done"
    /\ solved' = TRUE
    /\ UNCHANGED <<presses, stale_fed, stale_readers, captcha_timeout,
                   start_time, depth, timeout0, first_start, caller_timeout,
                   charged, loop_entered, last_pass, entry, max_attempts,
                   hcVars, w_pc, w_result, now, page_captcha, pipeVars,
                   normVars, detVars, mainVars,
                   extVars, paceVars, uiVars>>

\* 79-81: input() returns in the thread of a call that has ended; the flag
\* it sets is the one of that call
StaleThreadReads ==
    /\ CapRunning
    /\ stdin_lines > 0
    /\ stale_readers > 0
    /\ stdin_lines' = stdin_lines - 1
    /\ stale_readers' = stale_readers - 1
    /\ stale_fed' = stale_fed + 1
    /\ UNCHANGED <<presses, reader, frameVars, entry, max_attempts, hcVars,
                   w_pc, w_result, now, page_captcha, pipeVars, normVars,
                   detVars, mainVars,
                   extVars, paceVars, uiVars>>

\* the challenge goes away or comes back
PageChanges ==
    /\ CapRunning
    /\ page_captcha' = ~page_captcha
    /\ UNCHANGED <<entry, max_attempts, hcVars, w_pc, w_result, frameVars,
                   now, threadVars, stdinVars, pipeVars, normVars, detVars, mainVars,
                   extVars, paceVars, uiVars>>

\* the steps of the calling thread
CapProgram ==
    \/ WaitSetup
    \/ WaitTimeout
    \/ WaitPollSleep
    \/ WaitSeesSignal
    \/ WaitSettle
    \/ WaitVerify
    \/ HcLoop
    \/ HcAfterWait
    \/ HcRecheck

CapNext ==
    \/ CapProgram
    \/ OperatorEnter
    \/ InputThreadReads
    \/ StaleThreadReads
    \/ PageChanges

\* a direct call wait_for_captcha_solution(page, t) with t >= 0, or a call
\* handle_captcha(page, n)
CapStart ==
    /\ entry \in {"wait", "handle"}
    /\ max_attempts \in (IF entry = "handle" THEN 0..MaxAttempts ELSE {0})
    /\ hc_pc = (IF entry = "handle" THEN "loop" ELSE "idle")
    /\ attempts = 0
    /\ hc_result = "none"
    /\ wait_calls = 0
    /\ w_pc = (IF entry = "wait" THEN "setup" ELSE "idle")
    /\ timeout0 \in (IF entry = "wait" THEN 0..MaxTimeout ELSE {0})
    /\ captcha_timeout = timeout0
    /\ caller_timeout = timeout0
    /\ start_time = -1
    /\ solved = FALSE
    /\ w_result = FALSE
    /\ depth = (IF entry = "wait" THEN 1 ELSE 0)
    /\ first_start = -1
    /\ charged = 0
    /\ loop_entered = FALSE
    /\ last_pass = -1
    /\ now = 0
    /\ stdin_lines = 0
    /\ presses = 0
    /\ reader = "none"
    /\ stale_readers = 0
    /\ stale_fed = 0
    /\ page_captcha \in BOOLEAN

InitCaptcha == PipeIdle /\ NormIdle /\ DetIdle /\ CapStart /\ MainIdle /\ ExtIdle
    /\ PaceIdle /\ ClickIdle /\ ScrollIdle

\* the calling thread runs on: each of its steps is a bounded sleep, a page
\* call that returns or raises, or plain computation
SpecCaptcha == InitCaptcha /\ [][CapNext]_vars /\ WF_vars(CapProgram)

---------------------------------------------------------------------------
(* main (main.py 67-124), with save_results (38-50) and print_results       *)
(* (52-65)                                                                  *)

Methods == {"api", "browser", "network"}

\* the parameters of the strategy functions (api_scraper.py 6,
\* browser_scraper.py 8, network_capture.py 8)
Params(m) ==
    CASE m = "api" -> {"limit"}
      [] m = "browser" -> {"limit"}
      [] m = "network" -> {"limit"}

\* the keyword arguments main passes (101, 103, 105)
Kwargs(m) ==
    CASE m = "api" -> {"limit"}
      [] m = "browser" -> {"limit", "headless"}
      [] m = "network" -> {"limit", "headless"}

\* a call with a keyword the function does not take raises TypeError before
\* the first statement of the function
CallBinds(m) == Kwargs(m) \subseteq Params(m)

\* the exception leaves main
OnScrapeErrorUncaught == "crashed"

\* except Exception as e: print(...) (106-107), then on to save_results
OnScrapeError == "save"

ExitCodeAt(p) == IF p = "crashed" THEN 1 ELSE -1

\* save_extracted_data(matches, filename) (extractors.py 266-287): every
\* exception of makedirs, open and json.dump is caught
SaveExtractedData(write_ok) ==
    [returned |-> write_ok, raised |-> FALSE]

\* parse_args and setup_directories (93-97); os.makedirs is outside the try
MainStart ==
    /\ main_pc = "start"
    /\ \/ /\ main_pc' = "dispatch"
          /\ UNCHANGED exit_code
       \/ /\ main_pc' = "crashed"
          /\ exit_code' = 1
    /\ UNCHANGED <<method, cli_limit, headless, save_only, main_matches,
                   scrape_error, saved_file, write_error, console, printed,
                   pipeVars, normVars, detVars, capVars,
                   extVars, paceVars, uiVars>>

\* the call of the strategy (99-105)
MainDispatch ==
    /\ main_pc = "dispatch"
    /\ IF CallBinds(method)
       THEN /\ strategy' = method
            /\ limit' = cli_limit
            /\ pc' = EntryPc(method)
            /\ main_pc' = "scraping"
            /\ UNCHANGED <<scrape_error, exit_code>>
       ELSE /\ scrape_error' = TRUE
            /\ main_pc' = OnScrapeError
            /\ exit_code' = ExitCodeAt(main_pc')
            /\ UNCHANGED <<strategy, limit, pc>>
    /\ UNCHANGED <<method, cli_limit, headless, save_only, main_matches,
                   saved_file, write_error, console, printed, apiVars,
                   browserVars, matches, result, raised, io, normVars,
                   detVars, capVars,
                   extVars, paceVars, uiVars>>

\* the strategy has returned or raised (101-107); its locals are gone, what
\* it returned is main's `matches`
MainCollect ==
    /\ main_pc = "scraping"
    /\ pc = "done"
    /\ IF raised
       THEN /\ scrape_error' = TRUE
            /\ main_pc' = OnScrapeError
            /\ exit_code' = ExitCodeAt(main_pc')
            /\ UNCHANGED main_matches
       ELSE /\ main_matches' = result
            /\ main_pc' = "save"
            /\ UNCHANGED <<scrape_error, exit_code>>
    /\ pc' = "returned"
    /\ endpoint_idx' = 1
    /\ events' = <<>>
    /\ seen_ids' = {}
    /\ matches' = <<>>
    /\ first_seen' = <<>>
    /\ prior_ids' = {}
    /\ cross_skip' = FALSE
    /\ parsed' = FALSE
    /\ UNCHANGED <<method, cli_limit, headless, save_only, saved_file,
                   write_error, console, printed, strategy, limit, result,
                   raised, io, browserVars, normVars, detVars, capVars,
                   extVars, paceVars, uiVars>>

\* saved_file = save_results(matches, args.method) (110, 38-50): open and
\* json.dump are in no try
MainSave ==
    /\ main_pc = "save"
    /\ IF main_matches = <<>>
       THEN /\ main_pc' = "report"
            /\ UNCHANGED <<saved_file, write_error, exit_code>>
       ELSE \/ /\ saved_file' = "file"
               /\ main_pc' = "report"
               /\ UNCHANGED <<write_error, exit_code>>
            \/ /\ write_error' = TRUE
               /\ main_pc' = "crashed"
               /\ exit_code' = 1
               /\ UNCHANGED saved_file
    /\ UNCHANGED <<method, cli_limit, headless, save_only, main_matches,
                   scrape_error, console, printed, pipeVars, normVars,
                   detVars, capVars,
                   extVars, paceVars, uiVars>>

\* 113-121: print_results, or the note about the file; return 0
MainReport ==
    /\ main_pc = "report"
    /\ IF ~save_only
       THEN /\ printed' = main_matches
            /\ console' = IF main_matches = <<>> THEN "no_matches"
                          ELSE "results"
       ELSE /\ printed' = <<>>
            /\ console' = IF saved_file # "none" THEN "saved"
                          ELSE "nothing_saved"
    /\ main_pc' = "exit"
    /\ exit_code' = 0
    /\ UNCHANGED <<method, cli_limit, headless, save_only, main_matches,
                   scrape_error, saved_file, write_error, pipeVars, normVars,
                   detVars, capVars,
                   extVars, paceVars, uiVars>>

MainStep ==
    \/ MainStart
    \/ MainDispatch
    \/ MainCollect
    \/ MainSave
    \/ MainReport

\* the command line: --method, --limit, --headless ("browser/network
\* methods only", 85), --save-only
MainBegin ==
    /\ method \in Methods
    /\ cli_limit \in 0..MaxLimit
    /\ headless \in (IF method = "api" THEN {FALSE} ELSE BOOLEAN)
    /\ save_only \in BOOLEAN
    /\ main_pc = "start"
    /\ main_matches = <<>>
    /\ scrape_error = FALSE
    /\ saved_file = "none"
    /\ write_error = FALSE
    /\ console = "none"
    /\ printed = <<>>
    /\ exit_code = -1

InitMain == PipeIdle /\ NormIdle /\ DetIdle /\ CapIdle /\ MainBegin /\ ExtIdle
    /\ PaceIdle /\ ClickIdle /\ ScrollIdle

\* under main only the API probe gets to run: the calls of the two browser
\* strategies do not bind
MainNext ==
    \/ MainStep
    \/ ApiNext

SpecMain == InitMain /\ [][MainNext]_vars

---------------------------------------------------------------------------
(* extract_matches_from_page on one page: the function of                   *)
(* utils/extractors.py and the functions of the same name local to          *)
(* browser_scraper.py and network_capture.py                                *)

ExtractFunctions == {"extractors", "browser_scraper", "network_capture"}

\* how many container selectors the function named fn queries
ContainerSelectors(fn) ==
    CASE fn = "extractors" -> MatchContainerSelectors
      [] fn = "browser_scraper" -> BrowserSelectors
      [] OTHER -> NetworkSelectors

ExtStart ==
    /\ ext_fn \in ExtractFunctions
    /\ ext_dom \in SeqsUpTo(ElementPool \cup ThrowingPool, MaxContainers)
    /\ ext_pc = "ready"
    /\ ext_result = <<>>
    /\ ext_raised = FALSE

\* page.evaluate(script) returns the script's `matches`
ExtractFromPage ==
    /\ ext_pc = "ready"
    /\ LET r == ExtractScript(ext_fn, ext_dom, ContainerSelectors(ext_fn))
       IN /\ ext_result' = r.matches
          /\ ext_raised' = r.raised
    /\ ext_pc' = "done"
    /\ UNCHANGED <<ext_fn, ext_dom, pipeVars, normVars, detVars, capVars,
                   mainVars, paceVars, uiVars>>

InitExtract == PipeIdle /\ NormIdle /\ DetIdle /\ CapIdle /\ MainIdle /\ ExtStart
    /\ PaceIdle /\ ClickIdle /\ ScrollIdle

SpecExtract == InitExtract /\ [][ExtractFromPage]_vars

---------------------------------------------------------------------------
(* The request pacing of fetch_live_and_upcoming_matches (api_scraper.py    *)
(* 52-120): the for loop over the endpoints with its delay, its             *)
(* landing-page visit and its GET; of the processing of an endpoint's       *)
(* events only its two ways of ending are kept.  Time is in milliseconds.   *)

\* readings of time.time()
ClockSamples == {0, 999, 1000, 1500, 2999}

\* the delay grows with the clock
RandomDelayWholeClock(t) == 1000 + t

\* delay = 1 + (time.time() % 1) (58)
RandomDelay(t) == 1000 + (t % 1000)

PaceSleep(i, ms) == [op |-> "sleep", at |-> i, ms |-> ms]
PaceLanding(i) == [op |-> "landing", at |-> i, ms |-> 0]
PaceGet(i) == [op |-> "get", at |-> i, ms |-> 0]

\* if endpoints.index(endpoint) > 0: time.sleep(delay) (57-59); the
\* endpoints are pairwise distinct, so index() is the position
DelayBefore(i, t) ==
    IF i > 1 THEN <<PaceSleep(i, RandomDelay(t))>> ELSE <<>>

\* if endpoints.index(endpoint) == 0: session.get(landing page) (64-67)
LandingBefore(i) == IF i = 1 THEN <<PaceLanding(i)>> ELSE <<>>

\* how one iteration ends: the landing-page visit raises, the iteration ends
\* after its GET (by an error or at the end of its events), or the limit is
\* reached at one of its events
PaceOutcomes(i) ==
    {"next_endpoint", "limit_reached"}
    \cup (IF i = 1 THEN {"landing_error"} ELSE {})

\* one iteration of `for endpoint in endpoints` (52-118)
PaceIteration ==
    /\ pace_pc = "loop"
    /\ \E t \in ClockSamples, outcome \in PaceOutcomes(pace_idx) :
          /\ pace_log' = pace_log \o DelayBefore(pace_idx, t)
                                  \o LandingBefore(pace_idx)
                                  \o (IF outcome = "landing_error" THEN <<>>
                                      ELSE <<PaceGet(pace_idx)>>)
          /\ IF outcome = "limit_reached"
             THEN /\ pace_pc' = "done"
                  /\ UNCHANGED pace_idx
             ELSE /\ pace_idx' = pace_idx + 1
                  /\ pace_pc' = IF pace_idx' > NumEndpoints THEN "done"
                                ELSE "loop"
    /\ UNCHANGED <<pipeVars, normVars, detVars, capVars, mainVars, extVars,
                   uiVars>>

PaceStart ==
    /\ pace_pc = "loop"
    /\ pace_idx = 1
    /\ pace_log = <<>>

InitPacing == PipeIdle /\ NormIdle /\ DetIdle /\ CapIdle /\ MainIdle /\ ExtIdle
    /\ PaceStart /\ ClickIdle /\ ScrollIdle

SpecPacing == InitPacing /\ [][PaceIteration]_vars

---------------------------------------------------------------------------
(* safe_click_random (page_interactions.py 95-137) on a page that does not  *)
(* change during the call                                                   *)

\* BROWSER_CONFIG["viewport"]
ViewportWidth == 1280
ViewportHeight == 800

\* max_attempts = 5 (110)
ClickAttempts == 5

\* width // 2, height // 2 (137)
Middle == <<ViewportWidth \div 2, ViewportHeight \div 2>>

\* outcomes of random.randint(50, width - 50), random.randint(50, height - 50)
\* (113-114): the two ends of the ranges and the middle of the viewport
ClickPoints ==
    {<<50, 50>>, Middle, <<ViewportWidth - 50, ViewportHeight - 50>>}

\* what the script of 118-126 returns at a point: "link" for an anchor or a
\* descendant of one, "safe" for another element, "unknown" for no element
PointKinds == {"link", "safe", "unknown"}

\* if element == 'safe' (128)
ClickAllowed(kind) == kind = "safe"

\* one iteration of `for _ in range(max_attempts)` (111-134); a page call
\* returns or raises
ClickAttempt ==
    /\ click_pc = "loop"
    /\ click_tries < ClickAttempts
    /\ click_tries' = click_tries + 1
    /\ \E pt \in ClickPoints, ok \in BOOLEAN :
          IF ~ok
          THEN /\ click_pc' = "raised"
               /\ UNCHANGED click_log
          ELSE IF avoid_links /\ ~ClickAllowed(click_page[pt])
               THEN UNCHANGED <<click_pc, click_log>>
               ELSE /\ click_log' = Append(click_log, pt)
                    /\ click_pc' = "done"
    /\ UNCHANGED <<avoid_links, click_page, pipeVars, normVars, detVars,
                   capVars, mainVars, extVars, paceVars, scrollVars>>

\* the loop ran out: page.mouse.click(width // 2, height // 2) (137)
ClickMiddle ==
    /\ click_pc = "loop"
    /\ click_tries = ClickAttempts
    /\ \E ok \in BOOLEAN :
          IF ok
          THEN /\ click_log' = Append(click_log, Middle)
               /\ click_pc' = "done"
          ELSE /\ click_pc' = "raised"
               /\ UNCHANGED click_log
    /\ UNCHANGED <<avoid_links, click_page, click_tries, pipeVars, normVars,
                   detVars, capVars, mainVars, extVars, paceVars, scrollVars>>

ClickNext == ClickAttempt \/ ClickMiddle

ClickStart ==
    /\ avoid_links \in BOOLEAN
    /\ click_page \in [ClickPoints -> PointKinds]
    /\ click_pc = "loop"
    /\ click_tries = 0
    /\ click_log = <<>>

InitClick == PipeIdle /\ NormIdle /\ DetIdle /\ CapIdle /\ MainIdle /\ ExtIdle
    /\ PaceIdle /\ ClickStart /\ ScrollIdle

SpecClick == InitClick /\ [][ClickNext]_vars

---------------------------------------------------------------------------
(* human_scroll (page_interactions.py 16-61).  Distances are in pixels,     *)
(* delays in milliseconds, an outcome of random.random() in thousandths.    *)

MaxIterations == 2

\* BROWSER_CONFIG["scroll_behavior"]: count, distance, variance, delay (1.5
\* seconds), delay_variance (1.0 seconds)
ScrollCount == 5
ScrollDistance == 300
ScrollVariance == 100
ScrollDelay == 1500
ScrollDelayVariance == 1000

\* if distance < 50: distance = 50 (41-42)
MinScroll == 50

\* the chance of the upward scroll, in thousandths (58)
UpChance == 300

\* `iterations or config["count"]`
ScrollCountTruthy(given, n) == IF given /\ n # 0 THEN n ELSE ScrollCount

\* iterations if iterations is not None else config["count"] (30)
ScrollCountOf(given, n) == IF given THEN n ELSE ScrollCount

\* outcomes of random.randint(-variance, variance) (40)
VarianceSamples == {-ScrollVariance, 0, ScrollVariance}

\* outcomes of random.random(): 0.0 <= r < 1.0
RandomSamples == {0, 999}

\* outcomes of random.randint(100, 300) (59)
UpSamples == {100, 300}

\* 40-42
DownDistance(k) ==
    IF ScrollDistance + k < MinScroll THEN MinScroll ELSE ScrollDistance + k

\* delay = base_delay + (random.random() * delay_variance) (54)
DelayAfter(r) == ScrollDelay + (r * ScrollDelayVariance) \div 1000

\* a scroll and the sleep after it; slept is FALSE when the call ended
\* between the two
Scrolled(op, px, ms, slept) ==
    [op |-> op, px |-> px, ms |-> ms, slept |-> slept]

\* one iteration of `for i in range(scroll_count)` (38-55): the scroll, the
\* screenshot when a prefix is given, the sleep; a page call returns or
\* raises
ScrollDown ==
    /\ scroll_pc = "loop"
    /\ Len(scroll_log) < ScrollCountOf(iterations_given, iterations)
    /\ \E k \in VarianceSamples, r \in RandomSamples :
          \/ /\ scroll_log' = Append(scroll_log,
                      Scrolled("down", DownDistance(k), DelayAfter(r), TRUE))
             /\ UNCHANGED scroll_pc
          \/ /\ scroll_pc' = "raised"
             /\ UNCHANGED scroll_log
          \/ /\ screenshot_prefix
             /\ scroll_log' = Append(scroll_log,
                      Scrolled("down", DownDistance(k), 0, FALSE))
             /\ scroll_pc' = "raised"
    /\ UNCHANGED <<iterations_given, iterations, screenshot_prefix, pipeVars,
                   normVars, detVars, capVars, mainVars, extVars, paceVars,
                   clickVars>>

\* after the loop (58-61): the occasional scroll back up, then the return
ScrollEnd ==
    /\ scroll_pc = "loop"
    /\ Len(scroll_log) = ScrollCountOf(iterations_given, iterations)
    /\ \E r \in {0, UpChance - 1, UpChance, 999} :
          IF r < UpChance
          THEN \E up \in UpSamples :
                  \/ /\ scroll_log' = Append(scroll_log,
                              Scrolled("up", up, ScrollDelay, TRUE))
                     /\ scroll_pc' = "done"
                  \/ /\ scroll_pc' = "raised"
                     /\ UNCHANGED scroll_log
          ELSE /\ scroll_pc' = "done"
               /\ UNCHANGED scroll_log
    /\ UNCHANGED <<iterations_given, iterations, screenshot_prefix, pipeVars,
                   normVars, detVars, capVars, mainVars, extVars, paceVars,
                   clickVars>>

ScrollNext == ScrollDown \/ ScrollEnd

\* a call with iterations None or a count >= 0
ScrollStart ==
    /\ iterations_given \in BOOLEAN
    /\ iterations \in (IF iterations_given THEN 0..MaxIterations ELSE {0})
    /\ screenshot_prefix \in BOOLEAN
    /\ scroll_pc = "loop"
    /\ scroll_log = <<>>

InitScroll == PipeIdle /\ NormIdle /\ DetIdle /\ CapIdle /\ MainIdle /\ ExtIdle
    /\ PaceIdle /\ ClickIdle /\ ScrollStart

SpecScroll == InitScroll /\ [][ScrollNext]_vars

---------------------------------------------------------------------------
(* Properties of the CAPTCHA gate *)

WaitEnded == w_pc \in {"returned", "raised"}

\* C8: a direct call with timeout t >= 0 to which no line is ever typed
\* returns False, at the moment t seconds have elapsed since its start_time
\* and not before; with t = 0 the loop body is never entered.  Once its
\* set-up is done such a call cannot raise, and every such call ends.
C8_TimeoutWithoutSignal ==
    /\ []((entry = "wait" /\ presses = 0) =>
            /\ w_pc = "poll" => Elapsed <= timeout0
            /\ w_pc = "raised" => start_time = -1
            /\ w_pc = "returned" =>
                  /\ ~w_result
                  /\ Elapsed = timeout0
                  /\ depth = 1
                  /\ timeout0 = 0 => ~loop_entered)
    /\ (entry = "wait" => <>(WaitEnded \/ presses > 0))

C8_Witness ==
    /\ entry = "wait"
    /\ presses = 0
    /\ timeout0 = 0
    /\ w_pc = "returned"
    /\ ~w_result
    /\ ~loop_entered

C10_BoundedAttempts ==
    /\ [](entry = "handle" =>
            /\ wait_calls <= max_attempts
            /\ attempts = wait_calls
            /\ (hc_pc = "done" /\ hc_result = "False") =>
                  attempts = max_attempts)
    /\ [][(hc_pc = "loop" /\ attempts = max_attempts /\ hc_pc' # hc_pc) =>
            (hc_pc' = "done" /\ hc_result' = "False")]_vars
    /\ (entry = "handle" => <>(hc_pc = "done"))

C10_Witness ==
    /\ entry = "handle"
    /\ max_attempts = MaxAttempts
    /\ wait_calls = MaxAttempts
    /\ hc_pc = "done"
    /\ hc_result = "False"

---------------------------------------------------------------------------
(* Properties of the pipeline *)

Probes == {"get", "extract"}

\* C1: for every limit >= 0 and every strategy the returned list holds at
\* most `limit` records; with limit = 0 it is empty and nothing was probed
\* (no endpoint requested, no page extracted).
C1_LimitRespected ==
    (pc = "done" /\ ~raised) =>
        /\ Len(result) <= limit
        /\ limit = 0 => /\ result = <<>>
                        /\ \A k \in 1..Len(io) : io[k].op \notin Probes

RECURSIVE IsSubseq(_, _)
IsSubseq(a, b) ==
    IF a = <<>> THEN TRUE
    ELSE IF b = <<>> THEN FALSE
    ELSE IF Head(a) = Head(b) THEN IsSubseq(Tail(a), Tail(b))
    ELSE IsSubseq(a, Tail(b))

DistinctUrls(ms) ==
    \A i, j \in 1..Len(ms) : i # j => ms[i].url # ms[j].url

FirstArrivals == [k \in 1..Len(first_seen) |-> BuildMatch(first_seen[k])]

\* C2: the returned list holds each identity key (event id, detail URL) at
\* most once, and its records are the first arrivals of their keys, in
\* arrival order; an id first seen at an earlier endpoint is not accepted
\* again from a later one.
C2_DedupFirstSeen ==
    /\ DistinctUrls(result)
    /\ strategy = "api" =>
          /\ DistinctUrls(matches)
          /\ IsSubseq(matches, FirstArrivals)
          /\ IsSubseq(result, FirstArrivals)
    /\ (strategy = "network" /\ pc = "done") => IsSubseq(result, matches)

C2_Witness ==
    /\ strategy = "api" /\ pc = "done"
    /\ cross_skip
    /\ Len(result) >= 2

\* C3: in the API probe, the step that brings the number of accepted
\* records to `limit` returns them at once: no later event is processed, no
\* further endpoint is requested, and nothing happens after the return.
C3_HardEarlyExit ==
    [][strategy = "api" =>
         /\ pc # "done"
         /\ (matches' # matches /\ Len(matches') >= limit) =>
                (pc' = "done" /\ result' = matches' /\ io' = io)]_vars

C3_Witness ==
    /\ strategy = "api" /\ pc = "done"
    /\ limit >= 1 /\ Len(result) = limit
    /\ events # <<>>
    /\ endpoint_idx < NumEndpoints

Attempted(j) ==
    IF j = 1 THEN IoLanding(1) \in Range(io) ELSE IoGet(j) \in Range(io)

\* C4: in the API probe a failed endpoint (network error, non-2xx status,
\* unparsable body) fails alone: the following endpoints are still tried,
\* nothing is raised to the caller, and when no endpoint delivers a body the
\* probe returns the empty list.
C4_EndpointFailureIsolated ==
    strategy = "api" =>
        /\ ~raised
        /\ \A j \in 1..(endpoint_idx - 1) : Attempted(j)
        /\ (pc = "done" /\ ~parsed) =>
               (result = <<>> /\ endpoint_idx = NumEndpoints + 1)
        /\ (pc = "done" /\ Len(result) < limit) =>
               endpoint_idx = NumEndpoints + 1

C4_Witness ==
    /\ strategy = "api" /\ pc = "done"
    /\ ~parsed
    /\ IoGet(NumEndpoints) \in Range(io)

MatchFields ==
    {"url", "home_team", "away_team", "tournament", "start_time", "status"}

Populated(m) == \A f \in MatchFields : m[f] \notin {None, KeyAbsent}

\* C6: every record of the list a strategy returns has all its fields
\* present and non-null.
C6_AllFieldsPopulated ==
    pc = "done" => \A k \in 1..Len(result) : Populated(result[k])

\* the strategy is at the prompt "Press Enter when you've completed the
\* CAPTCHA... "
InCaptchaWait == pc \in {"br_captcha", "net_captcha"}

\* C11: a browser strategy that detected a challenge after navigating does
\* not stay in the CAPTCHA wait for ever when no line is typed: it leaves
\* the wait by itself.
C11_CaptchaWaitBounded == InCaptchaWait ~> ~InCaptchaWait

\* the browser session was set up: what fails later fails inside the probe
Launched == \E k \in 1..Len(io) : io[k].op = "launch"

\* C12: once a strategy is probing (the API probe from its start, the
\* browser strategies from the launched session on), a failure of
\* navigation, load-state waiting, interaction or extraction does not make
\* it raise: it returns a list.
C12_ProbeErrorsContained ==
    (pc = "done" /\ (strategy = "api" \/ Launched)) => ~raised

---------------------------------------------------------------------------
(* Further properties of the API probe *)

IsGet(e) == e.op = "get"

\* the GETs of endpoints issued so far, in the order they were issued
Gets == SelectSeq(io, IsGet)

\* C16: the GETs are issued in list order, one per endpoint from the first
\* on without a gap, and a run that ends below the limit has issued the GET
\* of every endpoint of the list.
C16_EndpointsInOrder ==
    strategy = "api" =>
        /\ \A k \in 1..Len(Gets) : Gets[k].at = k
        /\ (pc = "done" /\ Len(result) < limit) => Len(Gets) = NumEndpoints

IsPrefix(s, t) == Len(s) <= Len(t) /\ SubSeq(t, 1, Len(s)) = s

\* C17: each step of the API probe leaves the accumulated list as it is or
\* appends one record to it, also the steps in which an event or an
\* endpoint raises; the returned list is the accumulated list, so that a
\* record stands in it where it was accepted.
C17_AppendOnly ==
    [][strategy = "api" =>
         /\ \/ matches' = matches
            \/ /\ Len(matches') = Len(matches) + 1
               /\ IsPrefix(matches, matches')
         /\ (pc # "done" /\ pc' = "done") => result' = matches']_vars

\* a record was accepted, an event after it raised, and the run went through
\* the remaining endpoints
C17_Witness ==
    /\ strategy = "api"
    /\ pc = "done"
    /\ Len(result) = 1
    /\ limit = 2
    /\ result[1] = BuildMatch(EvFull1)
    /\ Len(first_seen) = 2
    /\ first_seen[1] = EvFull1
    /\ first_seen[2] = EvNullTeam3
    /\ endpoint_idx = NumEndpoints + 1

\* C27: in the API probe the ids marked as seen are exactly the ids of the
\* accumulated records
C27_SeenIffAccumulated ==
    strategy = "api" =>
        /\ \A id \in seen_ids :
               \E k \in DOMAIN matches : matches[k].url = EventUrl(id)
        /\ \A k \in DOMAIN matches :
               \E id \in seen_ids : matches[k].url = EventUrl(id)

---------------------------------------------------------------------------
(* Further properties of extract_matches_from_api_response *)

TopLevelEvents(data) ==
    IF data.events.tag = "list" THEN data.events.items ELSE <<>>

NestedEvents(data) ==
    IF data.sportItem.tag = "obj"
    THEN Flatten(TourEvents(data.sportItem.tournaments))
    ELSE <<>>

\* the first shape, and the second exactly when the first yields no event
FirstThenFallback(data) ==
    IF TopLevelEvents(data) # <<>> THEN TopLevelEvents(data)
    ELSE NestedEvents(data)

\* C18: on every response both functions work on the same event list, the
\* top-level events when there are any and the nested ones otherwise; the
\* records extract_matches_from_api_response returns are those of that list.
C18_SameEventList ==
    norm_pc = "done" =>
        /\ ExtractEvents(norm_data) = FirstThenFallback(norm_data)
        /\ ExtractEventsStrict(norm_data) = FirstThenFallback(norm_data)
        /\ ~norm_raised =>
              norm_result =
                 ProcessEvents(FirstThenFallback(norm_data), {}, <<>>).matches

---------------------------------------------------------------------------
(* Properties of main *)

\* main is past the call of the strategy
Dispatched == main_pc \in {"scraping", "save", "report", "exit"}

\* C13: for each method, once main has made its call the strategy of that
\* name was entered with args.limit: it is running or has run.
C13_DispatchEntersProbing ==
    Dispatched =>
        /\ strategy = method
        /\ limit = cli_limit
        /\ pc # "idle"

\* C14: a run that reaches the end of main has exit status 0, whatever the
\* strategy did; an exception of the strategy call never ends the run, which
\* goes on to save and report; only a failure to create the directories or
\* to write the file ends a run before main returns.
C14_ExitCodeZero ==
    /\ main_pc = "exit" => exit_code = 0
    /\ main_pc \notin {"exit", "crashed", "idle"} => exit_code = -1
    /\ scrape_error => main_pc \in {"save", "report", "exit"}
    /\ main_pc = "crashed" => (write_error \/ strategy = "none")

\* the strategy call raised and the run ended with status 0
C14_Witness ==
    /\ scrape_error
    /\ main_pc = "exit"
    /\ exit_code = 0
    /\ console = "no_matches"

\* C15: a run in which writing the output file failed still ends with exit
\* status 0 and, unless in save-only mode, with the collected records
\* printed; save_extracted_data answers a write error with False and never
\* raises.
C15_WriteErrorHarmless ==
    /\ write_error =>
          /\ main_pc # "crashed"
          /\ main_pc = "exit" =>
                /\ exit_code = 0
                /\ ~save_only => printed = main_matches
    /\ \A ok \in BOOLEAN :
          /\ ~SaveExtractedData(ok).raised
          /\ SaveExtractedData(ok).returned = ok


---------------------------------------------------------------------------
(* Properties of extract_matches_from_page *)

\* the URL the loop body resolves for the container el: none when the
\* look-up throws
ResolvedUrl(el) == IF el.fault = "url" THEN "" ELSE ContainerUrl(el)

\* the record the function named fn builds for the container el
RecordOf(fn, el) ==
    IF fn = "extractors" THEN ConfiguredMatch(el) ELSE ContainerMatch(el)

\* the element at position i of the page is matched by a container selector
\* of the called function
IsContainer(i) == ext_dom[i].sels \cap (1..ContainerSelectors(ext_fn)) # {}

\* the detail URLs the page's containers resolve to
ResolvedUrls ==
    {ResolvedUrl(ext_dom[i]) : i \in {j \in DOMAIN ext_dom : IsContainer(j)}}
        \ {""}

\* the least element of a non-empty set of numbers
Least(S) == CHOOSE x \in S : \A y \in S : x <= y

\* the first selector, in priority order, that matches a container resolving
\* to url, and the first element in document order it matches with that url
FirstSelector(url) ==
    Least({k \in 1..ContainerSelectors(ext_fn) :
            \E i \in DOMAIN ext_dom :
                k \in ext_dom[i].sels /\ ResolvedUrl(ext_dom[i]) = url})

FirstContainer(url) ==
    Least({i \in DOMAIN ext_dom :
            FirstSelector(url) \in ext_dom[i].sels
            /\ ResolvedUrl(ext_dom[i]) = url})

\* the position in the pool of the first container resolving to url
PoolRank(url) == FirstSelector(url) * (Len(ext_dom) + 1) + FirstContainer(url)

\* the URLs whose first resolving container is processed without an error
KeptUrls ==
    {u \in ResolvedUrls : ext_dom[FirstContainer(u)].fault = "none"}

\* C19: one call pools the containers of all selectors in selector-priority
\* order and skips a container without a URL or with a URL already seen: the
\* returned URLs are pairwise distinct, they are exactly the URLs whose first
\* resolving container is processed without an error, each record is the one
\* built from the first pooled container resolving to its URL, and the
\* records follow the pool's order
C19_PooledDedupByUrl ==
    ext_pc = "done" =>
        /\ \A a, b \in DOMAIN ext_result :
               a < b => /\ ext_result[a].url # ext_result[b].url
                        /\ PoolRank(ext_result[a].url)
                               < PoolRank(ext_result[b].url)
        /\ {ext_result[a].url : a \in DOMAIN ext_result} = KeptUrls
        /\ \A a \in DOMAIN ext_result :
               ext_result[a] =
                   RecordOf(ext_fn,
                            ext_dom[FirstContainer(ext_result[a].url)])

\* two containers resolve to one URL, the later one in the document is the
\* earlier one in the pool, and the one record kept is built from it
C19_Witness ==
    /\ ext_pc = "done"
    /\ Len(ext_result) = 1
    /\ \E i, j \in DOMAIN ext_dom :
           /\ i < j
           /\ IsContainer(i)
           /\ ResolvedUrl(ext_dom[i]) = ResolvedUrl(ext_dom[j])
           /\ FirstContainer(ext_result[1].url) = j
           /\ RecordOf(ext_fn, ext_dom[i]) # RecordOf(ext_fn, ext_dom[j])
           /\ ext_result[1] = RecordOf(ext_fn, ext_dom[j])


\* the team-name elements of a container, over all the team-name selectors,
\* in document order
MatchedNames(el) ==
    SelectSeq(el.teams,
              LAMBDA t : TeamSelectorsOf(t) \cap (1..TeamNameSelectors) # {})

FirstRank(i) ==
    Least(ext_dom[i].sels \cap (1..ContainerSelectors(ext_fn)))
        * (Len(ext_dom) + 1) + i

\* the element at position i of the page is a container on which the loop
\* body throws
Throws(i) == IsContainer(i) /\ ext_dom[i].fault # "none"

\* C21: the extraction never fails because of one container: the call
\* returns a list, and every container that is the first to resolve to its
\* URL and is processed without an error has its record in the list, whether
\* a throwing container comes before or after it in the pool
C21_ContainerErrorContained ==
    ext_pc = "done" =>
        /\ ~ext_raised
        /\ \A i \in DOMAIN ext_dom :
               (/\ IsContainer(i)
                /\ ext_dom[i].fault = "none"
                /\ ResolvedUrl(ext_dom[i]) # ""
                /\ FirstContainer(ResolvedUrl(ext_dom[i])) = i)
               => \E a \in DOMAIN ext_result :
                      ext_result[a] = RecordOf(ext_fn, ext_dom[i])

\* a container throws between two containers whose records are returned
C21_Witness ==
    /\ ext_pc = "done"
    /\ ~ext_raised
    /\ Len(ext_result) = 2
    /\ \E t \in DOMAIN ext_dom :
           /\ Throws(t)
           /\ PoolRank(ext_result[1].url) < FirstRank(t)
           /\ FirstRank(t) < PoolRank(ext_result[2].url)


---------------------------------------------------------------------------
(* Further properties of the CAPTCHA gate *)

\* a call of wait_for_captcha_solution returns True in this step
ReturnsSolved == w_pc # "returned" /\ w_pc' = "returned" /\ w_result'

\* C22: wait_for_captcha_solution returns True only from the detection that
\* follows a signal: the flag of the returning call was set by a line read
\* from the operator, and the detection run in the returning step finds no
\* challenge
C22_SolvedOnlyAfterVerify ==
    [][ReturnsSolved =>
          /\ w_pc = "verify"
          /\ solved
          /\ reader = "done"
          /\ presses - stdin_lines - stale_fed >= depth
          /\ ~page_captcha]_vars

\* a direct call has returned True after one signal
C22_Witness ==
    /\ entry = "wait"
    /\ w_pc = "returned"
    /\ w_result
    /\ presses = 1
    /\ ~page_captcha

\* C26: while a call of wait_for_captcha_solution is polling with its input
\* thread waiting for a line, no line is read by the input thread of a call
\* that has ended
C26_SignalReachesActiveWait ==
    [][(w_pc = "poll" /\ reader = "blocked") => stale_fed' = stale_fed]_vars


---------------------------------------------------------------------------
(* Properties of the request pacing *)

\* the positions of the log holding an entry of the kind op
LogAt(op) == {k \in DOMAIN pace_log : pace_log[k].op = op}

\* C23: one run visits the landing page exactly once, before every GET; the
\* GET of every endpoint but the first comes right after a delay of 1 to 2
\* seconds taken for that endpoint, and no delay is taken for the first
C23_PacedRequests ==
    /\ (pace_idx > 1 \/ pace_pc = "done") =>
           /\ Cardinality(LogAt("landing")) = 1
           /\ \A k \in LogAt("landing"), g \in LogAt("get") : k < g
    /\ \A g \in LogAt("get") :
           pace_log[g].at > 1 =>
               /\ g > 1
               /\ pace_log[g - 1].op = "sleep"
               /\ pace_log[g - 1].at = pace_log[g].at
    /\ \A k \in LogAt("sleep") :
           /\ pace_log[k].at > 1
           /\ pace_log[k].ms >= 1000
           /\ pace_log[k].ms <= 2000
    /\ Cardinality(LogAt("sleep")) <= NumEndpoints - 1

\* the run went through all endpoints, with a shortest and a longest delay
C23_Witness ==
    /\ pace_pc = "done"
    /\ pace_idx > NumEndpoints
    /\ Cardinality(LogAt("get")) = NumEndpoints
    /\ \E k \in LogAt("sleep") : pace_log[k].ms = 1000
    /\ \E k \in LogAt("sleep") : pace_log[k].ms = 1999


---------------------------------------------------------------------------
(* Properties of safe_click_random *)

\* C24: a call with avoid_links that returns has clicked exactly once, and
\* not on a link
C24_OneClickNeverOnLink ==
    (click_pc = "done" /\ avoid_links) =>
        /\ Len(click_log) = 1
        /\ click_page[click_log[1]] # "link"


---------------------------------------------------------------------------
(* Properties of human_scroll *)

\* the positions of the log holding a scroll in the direction op
ScrollsAt(op) == {k \in DOMAIN scroll_log : scroll_log[k].op = op}

\* C25: a call that returns has made exactly the configured number of
\* downward scrolls, followed by at most one upward scroll; every downward
\* distance is within base -/+ variance and not below 50, and every delay
\* after a downward scroll is within base_delay and base_delay +
\* delay_variance
C25_ScrollWithinConfig ==
    /\ scroll_pc = "done" =>
           /\ Cardinality(ScrollsAt("down")) =
                  (IF iterations_given THEN iterations ELSE ScrollCount)
           /\ Cardinality(ScrollsAt("up")) <= 1
    /\ \A u \in ScrollsAt("up"), k \in ScrollsAt("down") : k < u
    /\ \A k \in ScrollsAt("down") :
           /\ scroll_log[k].px >= ScrollDistance - ScrollVariance
           /\ scroll_log[k].px <= ScrollDistance + ScrollVariance
           /\ scroll_log[k].px >= MinScroll
           /\ scroll_log[k].slept =>
                  /\ scroll_log[k].ms >= ScrollDelay
                  /\ scroll_log[k].ms <= ScrollDelay + ScrollDelayVariance

\* a call without `iterations` has returned after the configured scrolls,
\* with a shortest and a longest distance, a shortest and a longest delay,
\* and the scroll back up
C25_Witness ==
    /\ scroll_pc = "done"
    /\ ~iterations_given
    /\ Cardinality(ScrollsAt("down")) = ScrollCount
    /\ Cardinality(ScrollsAt("up")) = 1
    /\ \E k \in ScrollsAt("down") :
           scroll_log[k].px = ScrollDistance - ScrollVariance
    /\ \E k \in ScrollsAt("down") :
           scroll_log[k].px = ScrollDistance + ScrollVariance
    /\ \E k \in ScrollsAt("down") : scroll_log[k].ms = ScrollDelay
    /\ \E k \in ScrollsAt("down") : scroll_log[k].ms > ScrollDelay


---------------------------------------------------------------------------
(* Further properties of the browser strategies *)

\* browser.close() was called
ClosedByCall == \E k \in 1..Len(io) : io[k].op = "close"

===========================================================================
